---- MODULE Spec2Model ----
(***************************************************************************)
(* payhook-ng: webhook verification and replay protection.                 *)
(*                                                                         *)
(* The module models the unified verify() pipeline (provider detection,    *)
(* provider verifier, freshness gate, idempotency gate), the in-memory and *)
(* the Redis idempotency stores, and the clock they read.  The source tree *)
(* holds two revisions of the pipeline: the one built on the atomic        *)
(* recordIfAbsent (specification Spec) and the earlier one built on the    *)
(* separate exists/record calls (specification LegacySpec).                *)
(***************************************************************************)
EXTENDS Integers, Sequences, FiniteSets, TLC

(***************************************************************************)
(* Bounds of the model.                                                    *)
(***************************************************************************)
MaxCalls == 2
MaxTicks == 3

(***************************************************************************)
(* Program constants.                                                      *)
(***************************************************************************)
MsPerSecond == 1000
DefaultTTL == 600

TickMs == MsPerSecond \div 2

(***************************************************************************)
(* Optional values: undefined is the empty sequence, a value v is <<v>>.   *)
(***************************************************************************)
Undefined == << >>
Some(v) == << v >>
IsDefined(o) == o # << >>
Val(o) == o[1]

Calls == 1..MaxCalls

Providers == {"paystack", "flutterwave"}
NoProvider == "none"

PAYSTACK_SIGNATURE_HEADER == "x-paystack-signature"
FLUTTERWAVE_SIGNATURE_HEADER == "verif-hash"

(***************************************************************************)
(* Inputs.  A body is the raw text: whether it parses as JSON and, when it *)
(* does, the fields of data the pipeline reads.                            *)
(***************************************************************************)
\* created_at and paid_at are date strings; the model keeps the instant (ms) each denotes.
Ids == {0, 1}
Stamps == {0, MsPerSecond}

Bodies ==
    [json : {TRUE}, id : {Undefined, Some(1)},
     created_at : {Undefined} \cup {Some(t) : t \in Stamps},
     paid_at : {Undefined}]
    \cup
    [json : {TRUE}, id : {Some(i) : i \in Ids}, created_at : {Undefined},
     paid_at : {Undefined}]
    \cup
    [json : {TRUE}, id : {Some(1)}, created_at : {Undefined, Some(0)},
     paid_at : {Some(MsPerSecond)}]
    \cup
    [json : {FALSE}, id : {Undefined}, created_at : {Undefined}, paid_at : {Undefined}]

EmptyBody == [json |-> FALSE, id |-> Undefined, created_at |-> Undefined, paid_at |-> Undefined]

PaystackSecret == "sk_live"
OtherSecret == "sk_other"
NoSecret == ""


(***************************************************************************)
(* A string is a sequence of tokens: a character, or the hex digest of a   *)
(* body b under a key k, kept as one token so that two digests are equal   *)
(* exactly when key and body are (HMAC taken as collision-free).  The      *)
(* character "z" is not a hex digit; "A" is the hex digit "a" in upper     *)
(* case.                                                                   *)
(***************************************************************************)
Chars == {"a", "1", "A", "z"}

Digest(k, b) == [k |-> k, b |-> b]
Ch(c) == [k |-> c, b |-> EmptyBody]
Junk == Ch("z")
IsChar(t) == t.k \in Chars
IsHexToken(t) == t.k # "z"

FlutterwaveHash == << Ch("a"), Ch("1") >>
NoHash == << >>

\* The value of a hex digit: upper and lower case denote the same nibble.
Nibble(t) == IF t.k = "A" THEN "a" ELSE t.k

\* Decoded bytes: the bytes of a digest, or the byte two hex digits make.
DigestBytes(t) == [digest |-> TRUE, k |-> t.k, b |-> t.b, hi |-> "", lo |-> ""]
Byte(t, u) == [digest |-> FALSE, k |-> "", b |-> EmptyBody, hi |-> Nibble(t), lo |-> Nibble(u)]

\* Buffer.from(s, 'hex'): pairs of hex digits are decoded up to the first character
\* that is no hex digit; a single trailing digit is dropped.
RECURSIVE HexDecode(_)
HexDecode(s) ==
    IF s = << >> THEN << >>
    ELSE IF ~IsChar(Head(s)) THEN << DigestBytes(Head(s)) >> \o HexDecode(Tail(s))
    ELSE IF /\ Len(s) >= 2
            /\ IsHexToken(Head(s))
            /\ IsChar(s[2])
            /\ IsHexToken(s[2])
    THEN << Byte(s[1], s[2]) >> \o HexDecode(Tail(Tail(s)))
    ELSE << >>

\* crypto.timingSafeEqual: throws a RangeError on buffers of different lengths.
cryptoTimingSafeEqual(a, b) ==
    IF Len(a) # Len(b) THEN "throw" ELSE IF a = b THEN "true" ELSE "false"

\* The comparison deciding on the lengths of the decoded buffers alone.
timingSafeEqualHexLengthOnly(aHex, bHex) ==
    Len(HexDecode(aHex)) = Len(HexDecode(bHex))

\* try { ... } catch { return false }
timingSafeEqualHex(aHex, bHex) ==
    LET a == HexDecode(aHex)
        b == HexDecode(bHex)
    IN  IF Len(a) # Len(b) THEN FALSE
        ELSE IF cryptoTimingSafeEqual(a, b) = "throw" THEN FALSE
        ELSE cryptoTimingSafeEqual(a, b) = "true"

\* The comparison accepting a value that is a prefix of the other.
timingSafeEqualStringsPrefix(a, b) ==
    \/ Len(a) <= Len(b) /\ a = SubSeq(b, 1, Len(a))
    \/ Len(b) <= Len(a) /\ b = SubSeq(a, 1, Len(b))

timingSafeEqualStrings(a, b) ==
    IF Len(a) # Len(b) THEN FALSE
    ELSE IF cryptoTimingSafeEqual(a, b) = "throw" THEN FALSE
    ELSE cryptoTimingSafeEqual(a, b) = "true"

\* The number of bytes a comparison examines.  crypto.timingSafeEqual reads every
\* byte of its two buffers; the length test ahead of it reads none.
timingSafeEqualHexExamines(aHex, bHex) ==
    LET a == HexDecode(aHex)
        b == HexDecode(bHex)
    IN  IF Len(a) # Len(b) THEN 0 ELSE Len(a)

timingSafeEqualStringsExamines(a, b) ==
    IF Len(a) # Len(b) THEN 0 ELSE Len(a)

\* signature !== secretHash of the earlier Flutterwave verifier: the strings are
\* compared up to the first position at which they differ.
FirstDifference(a, b) ==
    IF a = b THEN Len(a)
    ELSE CHOOSE i \in 1..Len(a) : a[i] # b[i] /\ \A j \in 1..(i - 1) : a[j] = b[j]

strictNotEqual(a, b) == a # b

strictNotEqualExamines(a, b) ==
    IF Len(a) # Len(b) THEN 0 ELSE FirstDifference(a, b)

computePaystackSignature(rawBody, secret) == << Digest(secret, rawBody) >>

(***************************************************************************)
(* Headers: the entries of the header object, in order.  A value is a      *)
(* string, an array (of which v[0] is kept) or undefined.                  *)
(***************************************************************************)
Lower(name) ==
    CASE name = "X-Paystack-Signature" -> "x-paystack-signature"
      [] name = "X-PAYSTACK-SIGNATURE" -> "x-paystack-signature"
      [] name = "Verif-Hash" -> "verif-hash"
      [] name = "VERIF-HASH" -> "verif-hash"
      [] name = "X-Custom-Signature" -> "x-custom-signature"
      [] OTHER -> name

Str(s) == [kind |-> "string", s |-> s]
Arr(s) == [kind |-> "array", s |-> s]
Undef == [kind |-> "undefined", s |-> << >>]

\* Header lookup by the exact name, without toLowerCase on the keys.
RECURSIVE getHeaderExactName(_, _)
getHeaderExactName(headers, name) ==
    IF headers = << >> THEN Undefined
    ELSE LET e == Head(headers)
         IN  IF e.name # name THEN getHeaderExactName(Tail(headers), name)
             ELSE IF e.v.kind = "string" THEN Some(e.v.s)
             ELSE IF e.v.kind = "array" THEN Some(e.v.s)
             ELSE Undefined

RECURSIVE getHeader(_, _)
getHeader(headers, name) ==
    IF headers = << >> THEN Undefined
    ELSE LET e == Head(headers)
         IN  IF Lower(e.name) # Lower(name) THEN getHeader(Tail(headers), name)
             ELSE IF e.v.kind = "string" THEN Some(e.v.s)
             ELSE IF e.v.kind = "array" THEN Some(e.v.s)
             ELSE Undefined

\* JavaScript truthiness of a header value: defined and not the empty string.
Truthy(o) == IsDefined(o) /\ Val(o) # << >>

(***************************************************************************)
(* Provider verifiers.  A result is Success (ok, code "OK", the payload)   *)
(* or a Failure with its code and no payload.  A payload is the body,      *)
(* parsed or, with parseJson: false, as raw text.                          *)
(***************************************************************************)
Parsed(rawBody) == [form |-> "parsed", body |-> rawBody]
RawText(rawBody) == [form |-> "raw", body |-> rawBody]

Success(p, payload) == [ok |-> TRUE, provider |-> p, code |-> "OK", payload |-> payload]
Failure(p, code) == [ok |-> FALSE, provider |-> p, code |-> code]

Results ==
    [ok : {TRUE}, provider : Providers, code : {"OK"},
     payload : {Parsed(b) : b \in Bodies} \cup {RawText(b) : b \in Bodies}]
    \cup
    [ok : {FALSE}, provider : Providers \cup {NoProvider},
     code : {"PAYHOOK_UNKNOWN_PROVIDER", "PAYHOOK_MISSING_HEADER",
             "PAYHOOK_INVALID_SIGNATURE", "PAYHOOK_INVALID_JSON",
             "PAYHOOK_STALE_EVENT", "PAYHOOK_REPLAY_ATTACK"}]

\* The input of a verifier: secret is input.secret (Paystack) or input.secretHash
\* (Flutterwave); signature and headers are optional.  The options:
\* parseJson (default true) and signatureHeader (default the provider's header).
VerifierInput(rawBody, secret, signature, headers) ==
    [rawBody |-> rawBody, secret |-> secret, signature |-> signature, headers |-> headers]

NoOptions == [parseJson |-> Undefined, signatureHeader |-> Undefined]

\* input.signature ?? (input.headers ? getHeader(input.headers, signatureHeader) : undefined)
SignatureOf(input, signatureHeader) ==
    IF IsDefined(input.signature) THEN input.signature
    ELSE IF IsDefined(input.headers) THEN getHeader(Val(input.headers), signatureHeader)
    ELSE Undefined

\* The tail both verifiers share: the raw text when parseJson is false, else JSON.parse.
PayloadOrInvalidJson(p, rawBody, options) ==
    IF options.parseJson = Some(FALSE) THEN Success(p, RawText(rawBody))
    ELSE IF ~rawBody.json THEN Failure(p, "PAYHOOK_INVALID_JSON")
    ELSE Success(p, Parsed(rawBody))

\* The Paystack verifier parsing the body before it compares the signature.
verifyPaystackParsingFirst(input, options) ==
    LET signatureHeader == IF IsDefined(options.signatureHeader)
                           THEN Val(options.signatureHeader)
                           ELSE PAYSTACK_SIGNATURE_HEADER
        signature == SignatureOf(input, signatureHeader)
    IN  IF ~Truthy(signature)
        THEN Failure("paystack", "PAYHOOK_MISSING_HEADER")
        ELSE IF options.parseJson # Some(FALSE) /\ ~input.rawBody.json
        THEN Failure("paystack", "PAYHOOK_INVALID_JSON")
        ELSE IF ~timingSafeEqualHex(computePaystackSignature(input.rawBody, input.secret),
                                    Val(signature))
        THEN Failure("paystack", "PAYHOOK_INVALID_SIGNATURE")
        ELSE PayloadOrInvalidJson("paystack", input.rawBody, options)

verifyPaystackWebhook(input, options) ==
    LET signatureHeader == IF IsDefined(options.signatureHeader)
                           THEN Val(options.signatureHeader)
                           ELSE PAYSTACK_SIGNATURE_HEADER
        signature == SignatureOf(input, signatureHeader)
    IN  IF ~Truthy(signature)
        THEN Failure("paystack", "PAYHOOK_MISSING_HEADER")
        ELSE IF ~timingSafeEqualHex(computePaystackSignature(input.rawBody, input.secret),
                                    Val(signature))
        THEN Failure("paystack", "PAYHOOK_INVALID_SIGNATURE")
        ELSE PayloadOrInvalidJson("paystack", input.rawBody, options)

verifyFlutterwaveWebhook(input, options) ==
    LET signatureHeader == IF IsDefined(options.signatureHeader)
                           THEN Val(options.signatureHeader)
                           ELSE FLUTTERWAVE_SIGNATURE_HEADER
        signature == SignatureOf(input, signatureHeader)
    IN  IF ~Truthy(signature)
        THEN Failure("flutterwave", "PAYHOOK_MISSING_HEADER")
        ELSE IF ~timingSafeEqualStrings(Val(signature), input.secret)
        THEN Failure("flutterwave", "PAYHOOK_INVALID_SIGNATURE")
        ELSE PayloadOrInvalidJson("flutterwave", input.rawBody, options)

\* The throwing API: what the call returns, or the error it throws.
Returned(value) == [thrown |-> FALSE, value |-> value]
Thrown(error) == [thrown |-> TRUE, error |-> error]

\* The switch with every failure thrown as InvalidSignatureError.
ThrowSignatureErrorFor(result) == Thrown("InvalidSignatureError")

\* The switch of both throwing wrappers over the code of a Failure.
ThrowFor(result) ==
    IF result.code = "PAYHOOK_MISSING_HEADER" THEN Thrown("MissingHeaderError")
    ELSE IF result.code = "PAYHOOK_INVALID_JSON" THEN Thrown("InvalidJsonError")
    ELSE Thrown("InvalidSignatureError")

verifyPaystackWebhookOrThrow(input, options) ==
    LET result == verifyPaystackWebhook(input, options)
    IN  IF ~result.ok THEN ThrowFor(result) ELSE Returned(result.payload)

verifyFlutterwaveWebhookOrThrow(input, options) ==
    LET result == verifyFlutterwaveWebhook(input, options)
    IN  IF ~result.ok THEN ThrowFor(result) ELSE Returned(result.payload)

(***************************************************************************)
(* Provider detection of verify(): Paystack first, then Flutterwave; a     *)
(* provider is selected when its header is truthy and its secret is set.   *)
(***************************************************************************)
\* Detection by header alone, without the test that the provider's secret is set.
DetectProviderByHeaderOnly(headers, cfg) ==
    IF Truthy(getHeader(headers, PAYSTACK_SIGNATURE_HEADER))
    THEN "paystack"
    ELSE IF Truthy(getHeader(headers, FLUTTERWAVE_SIGNATURE_HEADER))
    THEN "flutterwave"
    ELSE NoProvider

\* Detection with Flutterwave tried ahead of Paystack.
DetectProviderFlutterwaveFirst(headers, cfg) ==
    IF Truthy(getHeader(headers, FLUTTERWAVE_SIGNATURE_HEADER))
       /\ cfg.flutterwaveSecretHash # NoHash
    THEN "flutterwave"
    ELSE IF Truthy(getHeader(headers, PAYSTACK_SIGNATURE_HEADER))
            /\ cfg.paystackSecret # NoSecret
    THEN "paystack"
    ELSE NoProvider

\* Detection by the configured secret alone, without the test of the header.
DetectProviderBySecretOnly(headers, cfg) ==
    IF cfg.paystackSecret # NoSecret
    THEN "paystack"
    ELSE IF cfg.flutterwaveSecretHash # NoHash
    THEN "flutterwave"
    ELSE NoProvider

DetectProvider(headers, cfg) ==
    IF Truthy(getHeader(headers, PAYSTACK_SIGNATURE_HEADER)) /\ cfg.paystackSecret # NoSecret
    THEN "paystack"
    ELSE IF Truthy(getHeader(headers, FLUTTERWAVE_SIGNATURE_HEADER))
            /\ cfg.flutterwaveSecretHash # NoHash
    THEN "flutterwave"
    ELSE NoProvider

RunVerifier(provider, rawBody, headers, cfg) ==
    IF provider = "paystack"
    THEN verifyPaystackWebhook(
             VerifierInput(rawBody, cfg.paystackSecret, Undefined, Some(headers)), NoOptions)
    ELSE verifyFlutterwaveWebhook(
             VerifierInput(rawBody, cfg.flutterwaveSecretHash, Undefined, Some(headers)),
             NoOptions)

(***************************************************************************)
(* Field extraction.  An event key "<provider>:<id>" is the pair of its    *)
(* two parts.                                                              *)
(***************************************************************************)
Keys == Providers \X Ids

\* The event id without the provider prefix: one key space for both providers.
extractEventIdUnprefixed(provider, payload) ==
    IF ~IsDefined(payload.id) THEN Undefined
    ELSE Some(<< "paystack", Val(payload.id) >>)

extractEventId(provider, payload) ==
    IF ~IsDefined(payload.id) THEN Undefined
    ELSE Some(<< provider, Val(payload.id) >>)

\* The earlier revision tests the id for truthiness: payload.data?.id ? ... : undefined.
extractEventIdLegacy(provider, payload) ==
    IF IsDefined(payload.id) /\ Val(payload.id) # 0
    THEN Some(<< provider, Val(payload.id) >>)
    ELSE Undefined

\* A timestamp field holds a date string, kept as the instant (ms, >= 0) it denotes,
\* or the JSON number 0, kept as NumberZero.  A date string is truthy, the number 0
\* is not; new Date(0) is the instant 0.  A date string that does not parse is kept as
\* InvalidDate: it is truthy, and new Date of it has the time NaN, kept as InvalidDate too.
NumberZero == 0 - 1

InvalidDate == 0 - 2

TruthyStamp(field) == IsDefined(field) /\ Val(field) # NumberZero

DateOf(v) == IF v = NumberZero THEN 0 ELSE v

\* created_at || paid_at for Paystack, created_at for Flutterwave; ts ? new Date(ts)
\* : undefined.
extractTimestamp(provider, payload) ==
    LET ts == IF provider = "paystack"
              THEN IF TruthyStamp(payload.created_at)
                   THEN payload.created_at
                   ELSE payload.paid_at
              ELSE payload.created_at
    IN  IF TruthyStamp(ts) THEN Some(DateOf(Val(ts))) ELSE Undefined

\* The age test with an age equal to the threshold rejected too.
IsStaleFromThreshold(now, createdAt, maxAgeSeconds) ==
    now - createdAt >= maxAgeSeconds * MsPerSecond

\* The age test taking a date that did not parse for a stale one.
IsStaleOrInvalid(now, createdAt, maxAgeSeconds) ==
    \/ createdAt = InvalidDate
    \/ now - createdAt > maxAgeSeconds * MsPerSecond

\* ageSeconds > maxAgeSeconds, with ageSeconds = (Date.now() - createdAt) / 1000; the
\* age of an invalid date is NaN, and NaN > maxAgeSeconds is false.
IsStale(now, createdAt, maxAgeSeconds) ==
    /\ createdAt # InvalidDate
    /\ now - createdAt > maxAgeSeconds * MsPerSecond

\* The freshness gate: TRUE when the call ends with PAYHOOK_STALE_EVENT.
FreshnessRejects(cfg, provider, payload, now) ==
    /\ IsDefined(cfg.maxAgeSeconds)
    /\ Val(cfg.maxAgeSeconds) # 0
    /\ IsDefined(extractTimestamp(provider, payload))
    /\ IsStale(now, Val(extractTimestamp(provider, payload)), Val(cfg.maxAgeSeconds))

\* The TTL handed to the store with the configured one left aside.
TTLOfAlwaysDefault(cfg) == DefaultTTL

TTLOf(cfg) == IF IsDefined(cfg.idempotencyTTL) THEN Val(cfg.idempotencyTTL) ELSE DefaultTTL

(***************************************************************************)
(* InMemoryIdempotencyStore: a map from key to expiry instant (ms).        *)
(***************************************************************************)
EmptyStore == [k \in Keys |-> Undefined]

MemLive(m, key, now) == IsDefined(m[key]) /\ now <= Val(m[key])

\* recordIfAbsent: the value returned and the map after the call.
recordIfAbsentReturns(m, key, now) == ~MemLive(m, key, now)

\* recordIfAbsent without the insertion.
recordIfAbsentNoInsert(m, key, ttlSeconds, now) == m

\* recordIfAbsent with the TTL taken as milliseconds.
recordIfAbsentTTLAsMs(m, key, ttlSeconds, now) ==
    IF MemLive(m, key, now) THEN m
    ELSE [m EXCEPT ![key] = Some(now + ttlSeconds)]

\* recordIfAbsent setting the expiry of every key of the map.
recordIfAbsentAllKeys(m, key, ttlSeconds, now) ==
    IF MemLive(m, key, now) THEN m
    ELSE [k \in Keys |-> Some(now + ttlSeconds * MsPerSecond)]

\* recordIfAbsent setting the expiry anew on a duplicate as well.
recordIfAbsentExtending(m, key, ttlSeconds, now) ==
    [m EXCEPT ![key] = Some(now + ttlSeconds * MsPerSecond)]

recordIfAbsentMap(m, key, ttlSeconds, now) ==
    IF MemLive(m, key, now) THEN m
    ELSE [m EXCEPT ![key] = Some(now + ttlSeconds * MsPerSecond)]

\* The sweep removing an entry from the instant of its expiry on.
cleanupFromExpiry(m, now) ==
    [k \in Keys |-> IF IsDefined(m[k]) /\ now >= Val(m[k]) THEN Undefined ELSE m[k]]

cleanup(m, now) ==
    [k \in Keys |-> IF IsDefined(m[k]) /\ now > Val(m[k]) THEN Undefined ELSE m[k]]

\* The earlier revision of the store: exists (which drops an expired entry) and record.
existsReturns(m, key, now) == IsDefined(m[key]) /\ Val(m[key]) # 0 /\ ~(now > Val(m[key]))

existsMap(m, key, now) ==
    IF IsDefined(m[key]) /\ Val(m[key]) # 0 /\ now > Val(m[key])
    THEN [m EXCEPT ![key] = Undefined]
    ELSE m

recordMap(m, key, ttlSeconds, now) ==
    [m EXCEPT ![key] = Some(now + ttlSeconds * MsPerSecond)]

(***************************************************************************)
(* RedisIdempotencyStore: SET fullKey '1' EX ttl NX on the backend, whose  *)
(* keyspace maps a key to its expiry instant; a key whose expiry instant   *)
(* has been reached is gone.  The reply is "OK" or null.                   *)
(***************************************************************************)
BackendHas(b, key, now) == IsDefined(b[key]) /\ now < Val(b[key])

SetNX(b, key, ttlSeconds, now) ==
    IF BackendHas(b, key, now) THEN b
    ELSE [b EXCEPT ![key] = Some(now + ttlSeconds * MsPerSecond)]

SetNXReply(b, key, now) == IF BackendHas(b, key, now) THEN "null" ELSE "OK"

\* recordIfAbsent of the Redis store: result !== null.
RedisRecordIfAbsentReturns(reply) == reply # "null"

\* The earlier revision of the Redis store: exists is a GET, record a SET ... EX ttl
\* without NX.
RedisExistsReturns(b, key, now) == BackendHas(b, key, now)

SetEX(b, key, ttlSeconds, now) ==
    [b EXCEPT ![key] = Some(now + ttlSeconds * MsPerSecond)]

(***************************************************************************)
(* Requests and configurations the calls are drawn from.                   *)
(***************************************************************************)
PaystackSignatures(body) ==
    { computePaystackSignature(body, PaystackSecret),
      computePaystackSignature(body, OtherSecret),
      computePaystackSignature(EmptyBody, PaystackSecret),
      << Junk >>,
      << >> }

FlutterwaveValues == { FlutterwaveHash, << Ch("a") >>, << Ch("A"), Ch("1") >>, << >> }

HeadersFor(body) ==
    { << >>, << [name |-> "x-random", v |-> Str(<< Ch("a") >>)] >> }
    \cup { << [name |-> "x-paystack-signature", v |-> Str(sig)] >> :
             sig \in PaystackSignatures(body) }
    \cup { << [name |-> "X-Paystack-Signature",
               v |-> Str(computePaystackSignature(body, PaystackSecret))] >> }
    \cup { << [name |-> "verif-hash", v |-> Str(h)] >> : h \in FlutterwaveValues }
    \cup { << [name |-> "x-paystack-signature", v |-> Str(sig)],
              [name |-> "verif-hash", v |-> Str(FlutterwaveHash)] >> :
             sig \in { computePaystackSignature(body, PaystackSecret),
                       computePaystackSignature(body, OtherSecret) } }
    \cup { << [name |-> "x-paystack-signature", v |-> Undef],
              [name |-> "verif-hash", v |-> Arr(FlutterwaveHash)] >> }

Requests == UNION { [rawBody : {b}, headers : HeadersFor(b)] : b \in Bodies }

Configs ==
    [paystackSecret : {NoSecret, PaystackSecret},
     flutterwaveSecretHash : {NoHash, FlutterwaveHash},
     idempotencyStore : {"none", "memory", "redis"},
     idempotencyTTL : {Undefined, Some(1)},
     maxAgeSeconds : {Undefined, Some(1)}]

(***************************************************************************)
(* The synchronous part of verify(), from its entry to the call of the     *)
(* store or to the return: the provider detected, the verifier's code, the *)
(* code returned ("none" when the call goes on to the store), the key      *)
(* handed to the store and the provider field of the value the call        *)
(* returns (undefined when the value has none).                            *)
(***************************************************************************)
Outcome(provider, vcode, code, key, field) ==
    [provider |-> provider, vcode |-> vcode, code |-> code, key |-> key,
     field |-> field]

\* verify() without the early return on a verifier failure.
verifyIgnoringVerifier(rawBody, headers, cfg, now) ==
    LET provider == DetectProvider(headers, cfg)
        result == RunVerifier(provider, rawBody, headers, cfg)
        eventId == extractEventId(provider, rawBody)
    IN  IF provider = NoProvider
        THEN Outcome(NoProvider, "none", "PAYHOOK_UNKNOWN_PROVIDER", Undefined, Undefined)
        ELSE IF FreshnessRejects(cfg, provider, rawBody, now)
        THEN Outcome(provider, result.code, "PAYHOOK_STALE_EVENT", Undefined, Some(result.provider))
        ELSE IF cfg.idempotencyStore # "none" /\ IsDefined(eventId)
        THEN Outcome(provider, result.code, "none", eventId, Some(result.provider))
        ELSE Outcome(provider, result.code, "OK", Undefined, Some(result.provider))

\* verify() with the idempotency gate ahead of the freshness gate.
verifyStoreBeforeFreshness(rawBody, headers, cfg, now) ==
    LET provider == DetectProvider(headers, cfg)
        result == RunVerifier(provider, rawBody, headers, cfg)
        eventId == extractEventId(provider, rawBody)
    IN  IF provider = NoProvider
        THEN Outcome(NoProvider, "none", "PAYHOOK_UNKNOWN_PROVIDER", Undefined, Undefined)
        ELSE IF ~result.ok
        THEN Outcome(provider, result.code, result.code, Undefined, Some(result.provider))
        ELSE IF cfg.idempotencyStore # "none" /\ IsDefined(eventId)
        THEN Outcome(provider, "OK", "none", eventId, Some(result.provider))
        ELSE IF FreshnessRejects(cfg, provider, rawBody, now)
        THEN Outcome(provider, "OK", "PAYHOOK_STALE_EVENT", Undefined, Some(result.provider))
        ELSE Outcome(provider, "OK", "OK", Undefined, Some(result.provider))

\* verify() with the provider left out of the STALE_EVENT failure.
verifyStaleWithoutProvider(rawBody, headers, cfg, now) ==
    LET provider == DetectProvider(headers, cfg)
        result == RunVerifier(provider, rawBody, headers, cfg)
        eventId == extractEventId(provider, rawBody)
    IN  IF provider = NoProvider
        THEN Outcome(NoProvider, "none", "PAYHOOK_UNKNOWN_PROVIDER", Undefined, Undefined)
        ELSE IF ~result.ok
        THEN Outcome(provider, result.code, result.code, Undefined, Some(result.provider))
        ELSE IF FreshnessRejects(cfg, provider, rawBody, now)
        THEN Outcome(provider, "OK", "PAYHOOK_STALE_EVENT", Undefined, Undefined)
        ELSE IF cfg.idempotencyStore # "none" /\ IsDefined(eventId)
        THEN Outcome(provider, "OK", "none", eventId, Some(result.provider))
        ELSE Outcome(provider, "OK", "OK", Undefined, Some(result.provider))

verify(rawBody, headers, cfg, now) ==
    LET provider == DetectProvider(headers, cfg)
        result == RunVerifier(provider, rawBody, headers, cfg)
        eventId == extractEventId(provider, rawBody)
    IN  IF provider = NoProvider
        THEN Outcome(NoProvider, "none", "PAYHOOK_UNKNOWN_PROVIDER", Undefined, Undefined)
        ELSE IF ~result.ok
        THEN Outcome(provider, result.code, result.code, Undefined, Some(result.provider))
        ELSE IF FreshnessRejects(cfg, provider, rawBody, now)
        THEN Outcome(provider, "OK", "PAYHOOK_STALE_EVENT", Undefined, Some(result.provider))
        ELSE IF cfg.idempotencyStore # "none" /\ IsDefined(eventId)
        THEN Outcome(provider, "OK", "none", eventId, Some(result.provider))
        ELSE Outcome(provider, "OK", "OK", Undefined, Some(result.provider))

\* The gate with the value of recordIfAbsent ignored.
verifyIgnoringRecorded(reply) ==
    IF reply = "error" THEN "THROWN" ELSE "OK"

\* The gate with a rejection of recordIfAbsent caught and taken as a duplicate.
verifyCatchingAsReplay(reply) ==
    IF reply \in {"error", "false"} THEN "PAYHOOK_REPLAY_ATTACK" ELSE "OK"

\* After the await: the value recordIfAbsent resolved to, or its rejection.
verifyAfterRecordIfAbsent(reply) ==
    IF reply = "error" THEN "THROWN"
    ELSE IF reply = "false" THEN "PAYHOOK_REPLAY_ATTACK"
    ELSE "OK"

(***************************************************************************)
(* State.                                                                  *)
(***************************************************************************)
VARIABLES
    revision,   \* which revision of verify() and of the in-memory store is built
    clock,      \* Date.now(), in ms
    config,     \* the PayhookConfig the calls share
    mem,        \* InMemoryIdempotencyStore.store
    timer,      \* InMemoryIdempotencyStore.timer is set
    backend,    \* the keyspace behind the Redis client
    calls,      \* the verify() calls: position and what each has done
    probe       \* one application of a library function: its input and what it gave

vars == << revision, clock, config, mem, timer, backend, calls, probe >>

NoProbe == [fn |-> "none"]

IdleCall ==
    [pc |-> "idle", psHdr |-> FALSE, flwHdr |-> FALSE, provider |-> NoProvider,
     vcode |-> "none", id |-> Undefined, ts |-> Undefined,
     stale |-> FALSE, touched |-> FALSE, reply |-> "none", at |-> Undefined,
     result |-> "none", field |-> Undefined, prior |-> {}]

DoneCalls == {d \in Calls : calls[d].pc = "done"}

Start ==
    /\ clock = 0
    /\ config \in Configs
    /\ mem = EmptyStore
    /\ timer = TRUE
    /\ backend = EmptyStore
    /\ calls = [c \in Calls |-> IdleCall]
    /\ probe = NoProbe

Init ==
    /\ revision = "recordIfAbsent"
    /\ Start

\* What a call notes of its request when it starts: whether the signature header of
\* the provider it selected (of both providers, when it selected none) was there, the
\* provider, the provider field of the value it returns, the verifier's code, the
\* event id, the timestamp the freshness gate read and whether the event was stale.
Entered(c, req, o) ==
    [calls[c] EXCEPT
        !.psHdr = /\ o.provider # "flutterwave"
                  /\ Truthy(getHeader(req.headers, PAYSTACK_SIGNATURE_HEADER)),
        !.flwHdr = /\ o.provider # "paystack"
                   /\ Truthy(getHeader(req.headers, FLUTTERWAVE_SIGNATURE_HEADER)),
        !.provider = o.provider,
        !.field = o.field,
        !.vcode = o.vcode,
        !.id = IF o.vcode = "OK" \/ IsDefined(o.key) THEN req.rawBody.id ELSE Undefined,
        !.ts = IF o.vcode = "OK" /\ IsDefined(config.maxAgeSeconds)
               THEN extractTimestamp(o.provider, req.rawBody) ELSE Undefined,
        !.stale = o.vcode = "OK" /\ FreshnessRejects(config, o.provider, req.rawBody, clock),
        !.prior = DoneCalls]

\* The key a call hands to the store.
KeyOf(c) == << calls[c].provider, Val(calls[c].id) >>

CanStart(c) ==
    /\ calls[c].pc = "idle"
    /\ \A d \in Calls : d < c => calls[d].pc # "idle"

(***************************************************************************)
(* verify(), revision with recordIfAbsent.                                 *)
(***************************************************************************)
\* The call runs to its return without reaching the store.
VerifyReturn(c) ==
    /\ CanStart(c)
    /\ \E req \in Requests :
         LET o == verify(req.rawBody, req.headers, config, clock)
         IN  /\ o.code # "none"
             /\ calls' = [calls EXCEPT ![c] =
                    [Entered(c, req, o) EXCEPT !.pc = "done", !.result = o.code]]
    /\ UNCHANGED << probe, revision, clock, config, mem, timer, backend >>

\* The call reaches the in-memory store: recordIfAbsent runs within the same step.
VerifyRecordMemory(c) ==
    /\ CanStart(c)
    /\ config.idempotencyStore = "memory"
    /\ \E req \in Requests :
         LET o == verify(req.rawBody, req.headers, config, clock)
         IN  /\ o.code = "none"
             /\ mem' = recordIfAbsentMap(mem, Val(o.key), TTLOf(config), clock)
             /\ calls' = [calls EXCEPT ![c] =
                    [Entered(c, req, o) EXCEPT
                        !.pc = "awaitRecordIfAbsent",
                        !.touched = TRUE,
                        !.at = Some(clock),
                        !.reply = IF recordIfAbsentReturns(mem, Val(o.key), clock)
                                  THEN "true" ELSE "false"]]
    /\ UNCHANGED << probe, revision, clock, config, timer, backend >>

\* The call reaches the Redis store: the SET command is sent.
VerifyRecordRedis(c) ==
    /\ CanStart(c)
    /\ config.idempotencyStore = "redis"
    /\ \E req \in Requests :
         LET o == verify(req.rawBody, req.headers, config, clock)
         IN  /\ o.code = "none"
             /\ calls' = [calls EXCEPT ![c] =
                    [Entered(c, req, o) EXCEPT
                        !.pc = "awaitRecordIfAbsent",
                        !.touched = TRUE,
                        !.reply = "pending"]]
    /\ UNCHANGED << probe, revision, clock, config, mem, timer, backend >>

\* The backend runs the SET ... EX ttl NX of a call and answers.
BackendSet(c) ==
    /\ calls[c].pc = "awaitRecordIfAbsent"
    /\ calls[c].reply = "pending"
    /\ backend' = SetNX(backend, KeyOf(c), TTLOf(config), clock)
    /\ calls' = [calls EXCEPT ![c] =
           [@ EXCEPT !.at = Some(clock),
                     !.reply = IF RedisRecordIfAbsentReturns(
                                     SetNXReply(backend, KeyOf(c), clock))
                               THEN "true" ELSE "false"]]
    /\ UNCHANGED << probe, revision, clock, config, mem, timer >>

\* The backend is unreachable: client.set rejects.
BackendFail(c) ==
    /\ calls[c].pc = "awaitRecordIfAbsent"
    /\ calls[c].reply = "pending"
    /\ calls' = [calls EXCEPT ![c] = [@ EXCEPT !.reply = "error"]]
    /\ UNCHANGED << probe, revision, clock, config, mem, timer, backend >>

\* The backend never answers: the promise of client.set stays pending for good.
BackendHang(c) ==
    /\ calls[c].pc = "awaitRecordIfAbsent"
    /\ calls[c].reply = "pending"
    /\ calls' = [calls EXCEPT ![c] = [@ EXCEPT !.reply = "hung"]]
    /\ UNCHANGED << probe, revision, clock, config, mem, timer, backend >>

\* The await of recordIfAbsent settles and the call returns or throws.
VerifyResume(c) ==
    /\ calls[c].pc = "awaitRecordIfAbsent"
    /\ calls[c].reply \in {"true", "false", "error"}
    /\ calls' = [calls EXCEPT ![c] =
           [@ EXCEPT !.pc = "done", !.result = verifyAfterRecordIfAbsent(calls[c].reply)]]
    /\ UNCHANGED << probe, revision, clock, config, mem, timer, backend >>

(***************************************************************************)
(* The environment of the calls: time, the sweep, dispose.                 *)
(***************************************************************************)
Tick ==
    /\ clock + TickMs <= MaxTicks * TickMs
    /\ clock' = clock + TickMs
    /\ UNCHANGED << probe, revision, config, mem, timer, backend, calls >>

Cleanup ==
    /\ timer
    /\ config.idempotencyStore = "memory"
    /\ mem' = cleanup(mem, clock)
    /\ UNCHANGED << probe, revision, clock, config, timer, backend, calls >>

\* dispose() clearing the timer and leaving the map as it is.
DisposeWithoutClear ==
    /\ config.idempotencyStore = "memory"
    /\ timer' = FALSE
    /\ mem' = mem
    /\ UNCHANGED << probe, revision, clock, config, backend, calls >>

\* dispose(): the timer, when set, is cleared; the map is cleared in any case.
Dispose ==
    /\ config.idempotencyStore = "memory"
    /\ timer' = FALSE
    /\ mem' = EmptyStore
    /\ UNCHANGED << probe, revision, clock, config, backend, calls >>

Next ==
    \/ \E c \in Calls : VerifyReturn(c)
    \/ \E c \in Calls : VerifyRecordMemory(c)
    \/ \E c \in Calls : VerifyRecordRedis(c)
    \/ \E c \in Calls : BackendSet(c)
    \/ \E c \in Calls : BackendFail(c)
    \/ \E c \in Calls : BackendHang(c)
    \/ \E c \in Calls : VerifyResume(c)
    \/ Tick
    \/ Cleanup
    \/ Dispose

Spec == Init /\ [][Next]_vars

\* The event loop runs each continuation whose promise has settled, and the fate
\* of a command that was sent is decided in the end: it is run, it fails, or (the
\* step BackendHang) it is never answered.
FairSpec ==
    /\ Init
    /\ [][Next]_vars
    /\ \A c \in Calls : WF_vars(VerifyResume(c))
    /\ \A c \in Calls : WF_vars(BackendSet(c) \/ BackendFail(c) \/ BackendHang(c))

(***************************************************************************)
(* verify() under a configuration whose maxAgeSeconds is 0.                *)
(***************************************************************************)
ZeroMaxAgeConfigs ==
    [paystackSecret : {PaystackSecret},
     flutterwaveSecretHash : {FlutterwaveHash},
     idempotencyStore : {"none", "memory", "redis"},
     idempotencyTTL : {Undefined},
     maxAgeSeconds : {Some(0)}]

ZeroMaxAgeInit ==
    /\ revision = "recordIfAbsent"
    /\ clock = 0
    /\ config \in ZeroMaxAgeConfigs
    /\ mem = EmptyStore
    /\ timer = TRUE
    /\ backend = EmptyStore
    /\ calls = [c \in Calls |-> IdleCall]
    /\ probe = NoProbe

ZeroMaxAgeSpec == ZeroMaxAgeInit /\ [][Next]_vars

(***************************************************************************)
(* verify(), earlier revision: exists and record around two awaits, the    *)
(* timestamp validated last.  Its in-memory store has no dispose.          *)
(***************************************************************************)
verifyLegacy(rawBody, headers, cfg, now) ==
    LET provider == DetectProvider(headers, cfg)
        result == RunVerifier(provider, rawBody, headers, cfg)
        eventId == extractEventIdLegacy(provider, rawBody)
    IN  IF provider = NoProvider
        THEN Outcome(NoProvider, "none", "PAYHOOK_UNKNOWN_PROVIDER", Undefined, Undefined)
        ELSE IF ~result.ok
        THEN Outcome(provider, result.code, result.code, Undefined, Some(result.provider))
        ELSE IF cfg.idempotencyStore # "none" /\ IsDefined(eventId)
        THEN Outcome(provider, "OK", "none", eventId, Some(result.provider))
        ELSE IF FreshnessRejects(cfg, provider, rawBody, now)
        THEN Outcome(provider, "OK", "PAYHOOK_STALE_EVENT", Undefined, Some(result.provider))
        ELSE Outcome(provider, "OK", "OK", Undefined, Some(result.provider))

\* The timestamp validation that ends the earlier revision.
verifyLegacyTimestamp(cfg, ts, now) ==
    IF /\ IsDefined(cfg.maxAgeSeconds)
       /\ Val(cfg.maxAgeSeconds) # 0
       /\ IsDefined(ts)
       /\ IsStale(now, Val(ts), Val(cfg.maxAgeSeconds))
    THEN "PAYHOOK_STALE_EVENT"
    ELSE "OK"

LegacyInit ==
    /\ revision = "exists/record"
    /\ Start
    /\ config.idempotencyStore \in {"none", "memory"}

LegacyReturn(c) ==
    /\ CanStart(c)
    /\ \E req \in Requests :
         LET o == verifyLegacy(req.rawBody, req.headers, config, clock)
         IN  /\ o.code # "none"
             /\ calls' = [calls EXCEPT ![c] =
                    [Entered(c, req, o) EXCEPT !.pc = "done", !.result = o.code]]
    /\ UNCHANGED << probe, revision, clock, config, mem, timer, backend >>

\* The call reaches the store: exists runs within the same step.
LegacyExists(c) ==
    /\ CanStart(c)
    /\ \E req \in Requests :
         LET o == verifyLegacy(req.rawBody, req.headers, config, clock)
         IN  /\ o.code = "none"
             /\ mem' = existsMap(mem, Val(o.key), clock)
             /\ calls' = [calls EXCEPT ![c] =
                    [Entered(c, req, o) EXCEPT
                        !.pc = "awaitExists",
                        !.touched = TRUE,
                        !.ts = extractTimestamp(o.provider, req.rawBody),
                        !.reply = IF existsReturns(mem, Val(o.key), clock)
                                  THEN "true" ELSE "false"]]
    /\ UNCHANGED << probe, revision, clock, config, timer, backend >>

\* After the await of exists: a replay returns, anything else is recorded.
LegacyReplay(c) ==
    /\ calls[c].pc = "awaitExists"
    /\ calls[c].reply = "true"
    /\ calls' = [calls EXCEPT ![c] =
           [@ EXCEPT !.pc = "done", !.result = "PAYHOOK_REPLAY_ATTACK"]]
    /\ UNCHANGED << probe, revision, clock, config, mem, timer, backend >>

LegacyRecord(c) ==
    /\ calls[c].pc = "awaitExists"
    /\ calls[c].reply = "false"
    /\ mem' = recordMap(mem, KeyOf(c), TTLOf(config), clock)
    /\ calls' = [calls EXCEPT ![c] =
           [@ EXCEPT !.pc = "awaitRecord", !.at = Some(clock)]]
    /\ UNCHANGED << probe, revision, clock, config, timer, backend >>

\* After the await of record: the timestamp validation and the return.
LegacyTimestamp(c) ==
    /\ calls[c].pc = "awaitRecord"
    /\ calls' = [calls EXCEPT ![c] =
           [@ EXCEPT !.pc = "done",
                     !.result = verifyLegacyTimestamp(config, calls[c].ts, clock)]]
    /\ UNCHANGED << probe, revision, clock, config, mem, timer, backend >>

LegacyNext ==
    \/ \E c \in Calls : LegacyReturn(c)
    \/ \E c \in Calls : LegacyExists(c)
    \/ \E c \in Calls : LegacyReplay(c)
    \/ \E c \in Calls : LegacyRecord(c)
    \/ \E c \in Calls : LegacyTimestamp(c)
    \/ Tick
    \/ Cleanup

LegacySpec == LegacyInit /\ [][LegacyNext]_vars

(***************************************************************************)
(* The earlier revision of verify() over the earlier revision of the Redis *)
(* store: exists sends a GET, record sends a SET ... EX ttl.               *)
(***************************************************************************)
LegacyRedisInit ==
    /\ revision = "exists/record"
    /\ Start
    /\ config.idempotencyStore = "redis"

\* The call reaches the store: the GET is sent.
LegacyExistsRedis(c) ==
    /\ CanStart(c)
    /\ \E req \in Requests :
         LET o == verifyLegacy(req.rawBody, req.headers, config, clock)
         IN  /\ o.code = "none"
             /\ calls' = [calls EXCEPT ![c] =
                    [Entered(c, req, o) EXCEPT
                        !.pc = "awaitExists",
                        !.touched = TRUE,
                        !.ts = extractTimestamp(o.provider, req.rawBody),
                        !.reply = "pending"]]
    /\ UNCHANGED << probe, revision, clock, config, mem, timer, backend >>

\* The backend runs the GET of a call and answers.
BackendGet(c) ==
    /\ calls[c].pc = "awaitExists"
    /\ calls[c].reply = "pending"
    /\ calls' = [calls EXCEPT ![c] =
           [@ EXCEPT !.reply = IF RedisExistsReturns(backend, KeyOf(c), clock)
                               THEN "true" ELSE "false"]]
    /\ UNCHANGED << probe, revision, clock, config, mem, timer, backend >>

\* After the await of exists: record sends the SET and the backend runs it.
LegacyRecordRedis(c) ==
    /\ calls[c].pc = "awaitExists"
    /\ calls[c].reply = "false"
    /\ backend' = SetEX(backend, KeyOf(c), TTLOf(config), clock)
    /\ calls' = [calls EXCEPT ![c] =
           [@ EXCEPT !.pc = "awaitRecord", !.at = Some(clock)]]
    /\ UNCHANGED << probe, revision, clock, config, mem, timer >>

LegacyRedisNext ==
    \/ \E c \in Calls : LegacyReturn(c)
    \/ \E c \in Calls : LegacyExistsRedis(c)
    \/ \E c \in Calls : BackendGet(c)
    \/ \E c \in Calls : LegacyReplay(c)
    \/ \E c \in Calls : LegacyRecordRedis(c)
    \/ \E c \in Calls : LegacyTimestamp(c)
    \/ Tick

LegacyRedisSpec == LegacyRedisInit /\ [][LegacyRedisNext]_vars

(***************************************************************************)
(* Either revision: the build holds one of the two.                        *)
(***************************************************************************)
BothInit == Init \/ LegacyInit

BothNext ==
    \/ revision = "recordIfAbsent" /\ Next
    \/ revision = "exists/record" /\ LegacyNext

BothSpec == BothInit /\ [][BothNext]_vars

(***************************************************************************)
(* The library functions on their own: the provider verifiers with all of  *)
(* their inputs and options, their throwing wrappers, timingSafeEqualHex,  *)
(* and header lookup under the case variants of the header names.  A probe *)
(* holds one input; the actions apply the functions to it.                 *)
(***************************************************************************)
MaxLen == 3

LibraryBodies ==
    { [json |-> TRUE, id |-> Some(1), created_at |-> Undefined, paid_at |-> Undefined],
      [json |-> TRUE, id |-> Some(0), created_at |-> Undefined, paid_at |-> Undefined],
      [json |-> FALSE, id |-> Undefined, created_at |-> Undefined, paid_at |-> Undefined] }

LibrarySecrets == {PaystackSecret, OtherSecret}

LibraryOptions ==
    [parseJson : {Undefined, Some(TRUE), Some(FALSE)},
     signatureHeader : {Undefined, Some("x-custom-signature")}]

\* Signature values offered to the Paystack verifier for a body.
LibrarySignatures(body) ==
    { computePaystackSignature(b, k) : b \in LibraryBodies, k \in LibrarySecrets }
    \cup { computePaystackSignature(body, k) \o tail :
              k \in LibrarySecrets,
              tail \in { << Junk, Junk >>, << Ch("a") >>, << Ch("a"), Ch("1") >> } }
    \cup { << Junk >>, << >> }

LibraryHeaders(name, values) ==
    { << >>, << [name |-> "x-random", v |-> Str(<< Ch("a") >>)] >> }
    \cup { << [name |-> name, v |-> Str(x)] >> : x \in values }
    \cup { << [name |-> "x-custom-signature", v |-> Str(x)] >> : x \in values }

PaystackProbes ==
    UNION { [fn : {"verifyPaystackWebhook"},
             stage : {"input"},
             input : [rawBody : {b},
                      secret : LibrarySecrets,
                      signature : {Undefined} \cup {Some(x) : x \in LibrarySignatures(b)},
                      headers : {Undefined} \cup
                                {Some(h) : h \in LibraryHeaders(
                                     "x-paystack-signature",
                                     { computePaystackSignature(b, PaystackSecret),
                                       computePaystackSignature(b, OtherSecret) })}],
             options : LibraryOptions] : b \in LibraryBodies }

FlutterwaveProbes ==
    [fn : {"verifyFlutterwaveWebhook"},
     stage : {"input"},
     input : [rawBody : LibraryBodies,
              secret : {FlutterwaveHash, << Ch("a") >>},
              signature : {Undefined} \cup {Some(x) : x \in FlutterwaveValues},
              headers : {Undefined} \cup
                        {Some(h) : h \in LibraryHeaders("verif-hash",
                                                        {FlutterwaveHash, << Ch("A"), Ch("1") >>})}],
     options : LibraryOptions]

\* The strings of at most MaxLen characters.
HexStrings == UNION { [1..n -> {Ch(c) : c \in Chars}] : n \in 0..MaxLen }

HexProbes == [fn : {"timingSafeEqualHex"}, stage : {"input"}, aHex : HexStrings, bHex : HexStrings]

\* The comparisons the verifiers decide a signature with.
Comparators == {"timingSafeEqualHex", "timingSafeEqualStrings", "strictNotEqual"}

ComparisonProbes ==
    [fn : {"comparison"}, stage : {"input"}, by : Comparators,
     a : HexStrings, b : HexStrings]

\* Payloads for extractTimestamp: created_at missing, the number 0, a date string or a
\* string that is no date, paid_at missing or a string; the instants at which the
\* freshness gate reads the clock; and the thresholds configured.
StampValues == {Undefined, Some(NumberZero), Some(0), Some(MsPerSecond), Some(InvalidDate)}

MaxAges == {1, 2}

\* The headers of a correctly signed delivery of the body by the provider.
SignedHeaders(provider, body) ==
    IF provider = "paystack"
    THEN << [name |-> "x-paystack-signature",
             v |-> Str(computePaystackSignature(body, PaystackSecret))] >>
    ELSE << [name |-> "verif-hash", v |-> Str(FlutterwaveHash)] >>

StampProbes ==
    [fn : {"extractTimestamp"}, stage : {"input"}, provider : Providers,
     payload : [json : {TRUE}, id : {Some(1)},
                created_at : StampValues,
                paid_at : StampValues \ {Some(NumberZero)}],
     now : {n * TickMs : n \in 0..MaxTicks},
     cfg : [paystackSecret : {PaystackSecret},
            flutterwaveSecretHash : {FlutterwaveHash},
            idempotencyStore : {"none", "memory"},
            idempotencyTTL : {Undefined},
            maxAgeSeconds : {Some(m) : m \in MaxAges}]]

\* A header object with its names replaced by a case variant of each.
CaseVariantsOf(name) ==
    CASE name = "x-paystack-signature" -> {"X-Paystack-Signature", "X-PAYSTACK-SIGNATURE"}
      [] name = "verif-hash" -> {"Verif-Hash", "VERIF-HASH"}
      [] name = "x-custom-signature" -> {"X-Custom-Signature"}
      [] OTHER -> {name}

CaseVariants(headers) ==
    { h \in [1..Len(headers) -> [name : UNION {CaseVariantsOf(e.name) : e \in {headers[i] : i \in 1..Len(headers)}},
                                 v : {headers[i].v : i \in 1..Len(headers)}]] :
        \A i \in 1..Len(headers) :
            h[i].v = headers[i].v /\ h[i].name \in CaseVariantsOf(headers[i].name) }

LibraryConfigs ==
    [paystackSecret : {NoSecret, PaystackSecret},
     flutterwaveSecretHash : {NoHash, FlutterwaveHash},
     idempotencyStore : {"none"},
     idempotencyTTL : {Undefined},
     maxAgeSeconds : {Undefined}]

HeaderProbesFor(b) ==
    UNION { [fn : {"getHeader"},
             stage : {"input"},
             rawBody : {b},
             headers : {h},
             variant : CaseVariants(h),
             cfg : LibraryConfigs] :
            h \in HeadersFor(b) \cup LibraryHeaders("x-paystack-signature",
                                         {computePaystackSignature(b, PaystackSecret)}) }

HeaderProbes == UNION { HeaderProbesFor(b) : b \in {x \in LibraryBodies : x.id # Some(0)} }

Probes ==
    PaystackProbes \cup FlutterwaveProbes \cup HexProbes \cup ComparisonProbes
    \cup StampProbes \cup HeaderProbes

LibraryInit ==
    /\ revision = "library"
    /\ clock = 0
    /\ config \in {cfg \in LibraryConfigs :
                       cfg.paystackSecret # NoSecret /\ cfg.flutterwaveSecretHash # NoHash}
    /\ mem = EmptyStore
    /\ timer = TRUE
    /\ backend = EmptyStore
    /\ calls = [c \in Calls |-> IdleCall]
    /\ probe \in Probes

LibraryFrame == UNCHANGED << revision, clock, config, mem, timer, backend, calls >>

\* What the functions that read headers give for a header object.
HeaderOutcomes(rawBody, headers, cfg) ==
    [paystackHeader |-> getHeader(headers, PAYSTACK_SIGNATURE_HEADER),
     flutterwaveHeader |-> getHeader(headers, FLUTTERWAVE_SIGNATURE_HEADER),
     paystack |-> verifyPaystackWebhook(
                      VerifierInput(rawBody, PaystackSecret, Undefined, Some(headers)),
                      NoOptions),
     flutterwave |-> verifyFlutterwaveWebhook(
                         VerifierInput(rawBody, FlutterwaveHash, Undefined, Some(headers)),
                         NoOptions),
     detected |-> DetectProvider(headers, cfg),
     verify |-> verify(rawBody, headers, cfg, 0)]

ApplyVerifyPaystack ==
    /\ probe.fn = "verifyPaystackWebhook"
    /\ probe.stage = "input"
    /\ probe' = [fn |-> probe.fn, stage |-> "verified", input |-> probe.input,
                 options |-> probe.options,
                 result |-> verifyPaystackWebhook(probe.input, probe.options)]
    /\ LibraryFrame

ApplyVerifyFlutterwave ==
    /\ probe.fn = "verifyFlutterwaveWebhook"
    /\ probe.stage = "input"
    /\ probe' = [fn |-> probe.fn, stage |-> "verified", input |-> probe.input,
                 options |-> probe.options,
                 result |-> verifyFlutterwaveWebhook(probe.input, probe.options)]
    /\ LibraryFrame

ApplyPaystackOrThrow ==
    /\ probe.fn = "verifyPaystackWebhook"
    /\ probe.stage = "verified"
    /\ probe' = [fn |-> probe.fn, stage |-> "both", input |-> probe.input,
                 options |-> probe.options, result |-> probe.result,
                 orThrow |-> verifyPaystackWebhookOrThrow(probe.input, probe.options)]
    /\ LibraryFrame

ApplyFlutterwaveOrThrow ==
    /\ probe.fn = "verifyFlutterwaveWebhook"
    /\ probe.stage = "verified"
    /\ probe' = [fn |-> probe.fn, stage |-> "both", input |-> probe.input,
                 options |-> probe.options, result |-> probe.result,
                 orThrow |-> verifyFlutterwaveWebhookOrThrow(probe.input, probe.options)]
    /\ LibraryFrame

ApplyTimingSafeEqualHex ==
    /\ probe.fn = "timingSafeEqualHex"
    /\ probe.stage = "input"
    /\ probe' = [fn |-> probe.fn, stage |-> "compared", aHex |-> probe.aHex,
                 bHex |-> probe.bHex,
                 equal |-> timingSafeEqualHex(probe.aHex, probe.bHex)]
    /\ LibraryFrame

ApplyComparison ==
    /\ probe.fn = "comparison"
    /\ probe.stage = "input"
    /\ probe' = [fn |-> probe.fn, stage |-> "compared", by |-> probe.by,
                 a |-> probe.a, b |-> probe.b,
                 equal |->
                     CASE probe.by = "timingSafeEqualHex" ->
                              timingSafeEqualHex(probe.a, probe.b)
                       [] probe.by = "timingSafeEqualStrings" ->
                              timingSafeEqualStrings(probe.a, probe.b)
                       [] probe.by = "strictNotEqual" ->
                              ~strictNotEqual(probe.a, probe.b),
                 examined |->
                     CASE probe.by = "timingSafeEqualHex" ->
                              timingSafeEqualHexExamines(probe.a, probe.b)
                       [] probe.by = "timingSafeEqualStrings" ->
                              timingSafeEqualStringsExamines(probe.a, probe.b)
                       [] probe.by = "strictNotEqual" ->
                              strictNotEqualExamines(probe.a, probe.b)]
    /\ LibraryFrame

ApplyExtractTimestamp ==
    /\ probe.fn = "extractTimestamp"
    /\ probe.stage = "input"
    /\ probe' = [fn |-> probe.fn, stage |-> "extracted", provider |-> probe.provider,
                 payload |-> probe.payload, now |-> probe.now, cfg |-> probe.cfg,
                 createdAt |-> extractTimestamp(probe.provider, probe.payload),
                 stale |-> FreshnessRejects(probe.cfg, probe.provider, probe.payload,
                                            probe.now),
                 verify |-> verify(probe.payload,
                                   SignedHeaders(probe.provider, probe.payload),
                                   probe.cfg, probe.now)]
    /\ LibraryFrame

ApplyGetHeader ==
    /\ probe.fn = "getHeader"
    /\ probe.stage = "input"
    /\ probe' = [fn |-> probe.fn, stage |-> "looked up", rawBody |-> probe.rawBody,
                 headers |-> probe.headers, variant |-> probe.variant, cfg |-> probe.cfg,
                 given |-> HeaderOutcomes(probe.rawBody, probe.headers, probe.cfg),
                 varied |-> HeaderOutcomes(probe.rawBody, probe.variant, probe.cfg)]
    /\ LibraryFrame

LibraryNext ==
    \/ ApplyVerifyPaystack
    \/ ApplyVerifyFlutterwave
    \/ ApplyPaystackOrThrow
    \/ ApplyFlutterwaveOrThrow
    \/ ApplyTimingSafeEqualHex
    \/ ApplyComparison
    \/ ApplyExtractTimestamp
    \/ ApplyGetHeader

LibrarySpec == LibraryInit /\ [][LibraryNext]_vars

(***************************************************************************)
(* Notions the properties share.                                           *)
(***************************************************************************)
VerifierFailures ==
    {"PAYHOOK_MISSING_HEADER", "PAYHOOK_INVALID_SIGNATURE", "PAYHOOK_INVALID_JSON"}

ResultCodes ==
    {"PAYHOOK_UNKNOWN_PROVIDER", "PAYHOOK_MISSING_HEADER", "PAYHOOK_INVALID_SIGNATURE",
     "PAYHOOK_INVALID_JSON", "PAYHOOK_STALE_EVENT", "PAYHOOK_REPLAY_ATTACK"}

TTLMs == TTLOf(config) * MsPerSecond

\* The call carried a valid signature and a body that parses.
Valid(c) == calls[c].vcode = "OK"

\* The call carried a timestamp the freshness gate lets through, or none.
Fresh(c) == ~calls[c].stale /\ calls[c].result # "PAYHOOK_STALE_EVENT"

\* The calls that handed key k to the store.
Touching(k) ==
    {c \in Calls : calls[c].touched /\ IsDefined(calls[c].id) /\ KeyOf(c) = k}

\* The whole run lies inside one TTL window.
RunInsideTTL == TTLMs > MaxTicks * TickMs

(***************************************************************************)
(* C1.  The store is touched for an event key only after the same call's   *)
(* signature check, JSON parse and freshness check have passed; a call     *)
(* that returns STALE_EVENT neither reads nor writes the store; every key  *)
(* in the store was put there by a call that passed these gates.           *)
(***************************************************************************)
C1_StoreTouchedOnlyAfterGates ==
    /\ \A c \in Calls :
         /\ calls[c].touched => Valid(c) /\ ~calls[c].stale
         /\ calls[c].result = "PAYHOOK_STALE_EVENT" => ~calls[c].touched
    /\ \A k \in Keys :
         IsDefined(mem[k]) \/ IsDefined(backend[k]) =>
             \E c \in Touching(k) : Valid(c) /\ Fresh(c)

(***************************************************************************)
(* C2.  After a validly signed event with id X was rejected as stale, a    *)
(* later validly signed call with the same id X and a fresh timestamp      *)
(* returns Success, not REPLAY_ATTACK (no other call carried X).           *)
(***************************************************************************)
SameEvent(c, d) ==
    /\ calls[c].provider = calls[d].provider
    /\ IsDefined(calls[c].id)
    /\ calls[c].id = calls[d].id

C2_FreshRetryAfterStaleSucceeds ==
    \A d \in Calls : \A c \in Calls :
        ( /\ calls[d].pc = "done"
          /\ Valid(d)
          /\ calls[d].result = "PAYHOOK_STALE_EVENT"
          /\ calls[c].pc = "done"
          /\ d \in calls[c].prior
          /\ Valid(c)
          /\ Fresh(c)
          /\ SameEvent(c, d)
          /\ calls[c].reply \notin {"error", "hung"}
          /\ \A e \in Calls \ {c, d} : ~(calls[e].pc # "idle" /\ SameEvent(e, c)) )
        => calls[c].result = "OK"

(***************************************************************************)
(* C3.  Among the calls for one event id that carry a valid signature,     *)
(* pass the freshness gate and share one store that neither fails nor is   *)
(* shut down, all inside one TTL window and however interleaved, exactly   *)
(* one returns Success and every other one returns REPLAY_ATTACK.          *)
(***************************************************************************)
C3_ExactlyOneSuccessPerEvent ==
    \A k \in Keys :
        LET S == {c \in Touching(k) : Valid(c)}
        IN  ( /\ S # {}
              /\ config.idempotencyStore # "none"
              /\ timer
              /\ RunInsideTTL
              /\ \A c \in S : /\ calls[c].pc = "done"
                              /\ Fresh(c)
                              /\ calls[c].reply \notin {"error", "hung"} )
            => /\ Cardinality({c \in S : calls[c].result = "OK"}) = 1
               /\ \A c \in S : calls[c].result \in {"OK", "PAYHOOK_REPLAY_ATTACK"}

(***************************************************************************)
(* Notions of the store properties.  On the in-memory store of the         *)
(* recordIfAbsent revision a call invokes recordIfAbsent in the step it    *)
(* starts, and calls start in the order of their indices: the invocations  *)
(* before that of call c are those of the calls d < c.                     *)
(***************************************************************************)
Instants == {n * TickMs : n \in 0..MaxTicks}

\* The invocations of recordIfAbsent(k, ttl) on the in-memory store.
Invocations(k) == {c \in Touching(k) : IsDefined(calls[c].at)}

Recorded(c) == calls[c].reply = "true"

\* The in-memory store is the one in use and has not been disposed of.
MemoryStoreInUse == config.idempotencyStore = "memory" /\ timer

(***************************************************************************)
(* C4.  Among the invocations of recordIfAbsent(K, ttl) made at one        *)
(* instant on the same in-memory store, whatever other store operations    *)
(* run between them, exactly one returns true when no live entry for K     *)
(* existed before them (and none does when one existed): check and         *)
(* insertion are one step.                                                 *)
(***************************************************************************)
C4_OneRecorderAmongConcurrent ==
    \A k \in Keys : \A t \in Instants :
        LET G == {c \in Invocations(k) : Val(calls[c].at) = t}
            LiveBefore == \E d \in Invocations(k) :
                              /\ Val(calls[d].at) < t
                              /\ Recorded(d)
                              /\ t <= Val(calls[d].at) + TTLMs
        IN  MemoryStoreInUse /\ G # {} =>
                Cardinality({c \in G : Recorded(c)}) = IF LiveBefore THEN 0 ELSE 1

C4_Witness ==
    \E k \in Keys : \E c \in Invocations(k) : \E d \in Invocations(k) :
        /\ MemoryStoreInUse
        /\ c # d
        /\ calls[c].at = calls[d].at
        /\ Recorded(d)
        /\ calls[c].reply = "false"

(***************************************************************************)
(* C5.  On the in-memory store recordIfAbsent(K, ttl) returns true on the  *)
(* first call for K, false on a later call made less than ttl seconds      *)
(* after a recording of K, and true on a call made when more than ttl      *)
(* seconds have passed since every earlier recording of K.                 *)
(***************************************************************************)
C5_TrueFalseThenTrueAfterTTL ==
    \A k \in Keys : \A c \in Invocations(k) :
        LET Earlier == {d \in Invocations(k) : d < c /\ Recorded(d)}
        IN  MemoryStoreInUse =>
              /\ (\A d \in Invocations(k) : d >= c) => Recorded(c)
              /\ (\E d \in Earlier : Val(calls[c].at) - Val(calls[d].at) < TTLMs)
                     => calls[c].reply = "false"
              /\ (\A d \in Earlier : Val(calls[c].at) - Val(calls[d].at) > TTLMs)
                     => Recorded(c)

C5_Witness ==
    \E k \in Keys : \E c \in Invocations(k) : \E d \in Invocations(k) :
        /\ MemoryStoreInUse
        /\ d < c
        /\ Recorded(d)
        /\ Val(calls[c].at) - Val(calls[d].at) > TTLMs
        /\ Recorded(c)

(***************************************************************************)
(* C6.  Two validly signed requests for the same event, the second started *)
(* after the first returned and reaching the store inside the TTL, both    *)
(* past the freshness gate, with one configured store that neither fails   *)
(* nor is shut down and no other call for the event: the first returns     *)
(* Success, the second REPLAY_ATTACK.                                      *)
(***************************************************************************)
InSequence(d, c) ==
    /\ calls[d].pc = "done"
    /\ calls[c].pc = "done"
    /\ d \in calls[c].prior
    /\ Valid(d)
    /\ Valid(c)
    /\ SameEvent(c, d)
    /\ \A e \in Calls \ {c, d} : ~(calls[e].pc # "idle" /\ SameEvent(e, c))

C6_SecondOfTwoIsReplay ==
    \A d \in Calls : \A c \in Calls :
        ( /\ InSequence(d, c)
          /\ config.idempotencyStore # "none"
          /\ timer
          /\ Fresh(d)
          /\ Fresh(c)
          /\ calls[d].reply \notin {"error", "hung"}
          /\ calls[c].reply \notin {"error", "hung"}
          /\ Val(calls[c].at) - Val(calls[d].at) < TTLMs )
        => /\ calls[d].result = "OK"
           /\ calls[c].result = "PAYHOOK_REPLAY_ATTACK"

C6_Witness ==
    \E d \in Calls : \E c \in Calls :
        /\ InSequence(d, c)
        /\ calls[d].touched
        /\ calls[c].touched
        /\ calls[d].result = "OK"
        /\ calls[c].result = "PAYHOOK_REPLAY_ATTACK"

(***************************************************************************)
(* C7.  A call whose provider verifier fails (MISSING_HEADER,              *)
(* INVALID_SIGNATURE, INVALID_JSON) returns in the step it starts, with    *)
(* exactly the verifier's code, without touching the store: the in-memory  *)
(* map and the Redis keyspace are after the call what they were before.    *)
(***************************************************************************)
VerifierFailureEndsCall(c) ==
    (calls[c].pc = "idle" /\ calls'[c].vcode \in VerifierFailures) =>
        /\ calls'[c].pc = "done"
        /\ calls'[c].result = calls'[c].vcode
        /\ ~calls'[c].touched
        /\ mem' = mem
        /\ backend' = backend

C7_VerifierFailureReturnsAtOnce ==
    [][\A c \in Calls : VerifierFailureEndsCall(c)]_vars

C7_Witness ==
    \E c \in Calls :
        /\ calls[c].pc = "done"
        /\ calls[c].result = "PAYHOOK_INVALID_JSON"
        /\ config.idempotencyStore # "none"
        /\ IsDefined(config.maxAgeSeconds)
        /\ \E k \in Keys : IsDefined(mem[k]) \/ IsDefined(backend[k])

(***************************************************************************)
(* C8.  When recordIfAbsent rejects (the backend is unreachable) verify()  *)
(* throws: the call ends with neither Success nor any of the six result    *)
(* codes, and the outage records nothing.                                  *)
(***************************************************************************)
C8_StoreErrorSurfaces ==
    \A c \in Calls :
        (calls[c].pc = "done" /\ calls[c].reply = "error") =>
            /\ calls[c].result = "THROWN"
            /\ calls[c].result \notin {"OK"} \cup ResultCodes
            /\ ~IsDefined(calls[c].at)

C8_Witness ==
    \E c \in Calls :
        /\ calls[c].pc = "done"
        /\ calls[c].reply = "error"
        /\ calls[c].result = "THROWN"

(***************************************************************************)
(* C9.  A verify() call that reaches the idempotency gate terminates, even *)
(* when the backend never answers.                                         *)
(***************************************************************************)
C9_GateAlwaysTerminates ==
    \A c \in Calls :
        (calls[c].pc = "awaitRecordIfAbsent") ~> (calls[c].pc = "done")

(***************************************************************************)
(* C10.  A call for which no provider has both its signature header        *)
(* present and its secret configured returns UNKNOWN_PROVIDER with no      *)
(* provider, runs no verifier and does not touch the store; so does a call *)
(* that carries the header of a provider whose secret is not configured.   *)
(***************************************************************************)
Detectable(c) ==
    \/ calls[c].psHdr /\ config.paystackSecret # NoSecret
    \/ calls[c].flwHdr /\ config.flutterwaveSecretHash # NoHash

C10_UnknownProviderWithoutConfiguredHeader ==
    \A c \in Calls :
        (calls[c].pc # "idle" /\ ~Detectable(c)) =>
            /\ calls[c].pc = "done"
            /\ calls[c].result = "PAYHOOK_UNKNOWN_PROVIDER"
            /\ calls[c].provider = NoProvider
            /\ calls[c].vcode = "none"
            /\ ~calls[c].touched

C10_Witness ==
    \E c \in Calls :
        /\ calls[c].psHdr
        /\ config.paystackSecret = NoSecret
        /\ config.idempotencyStore # "none"
        /\ calls[c].result = "PAYHOOK_UNKNOWN_PROVIDER"

(***************************************************************************)
(* C11.  On the in-memory store every recordIfAbsent returns what it would *)
(* return had the sweep never run: the replies of the calls are those of   *)
(* the same invocations, at the same instants, replayed on a store that is *)
(* never swept, and the entries the sweep has removed are entries that     *)
(* recordIfAbsent treats as absent.                                        *)
(***************************************************************************)
Invoked(c) == calls[c].touched /\ IsDefined(calls[c].id) /\ IsDefined(calls[c].at)

\* The map after the invocations of the calls 1..n on a store that is never swept.
RECURSIVE NeverSwept(_)
NeverSwept(n) ==
    IF n = 0 THEN EmptyStore
    ELSE IF Invoked(n)
    THEN recordIfAbsentMap(NeverSwept(n - 1), KeyOf(n), TTLOf(config), Val(calls[n].at))
    ELSE NeverSwept(n - 1)

C11_SweepNeverChangesResults ==
    MemoryStoreInUse =>
        /\ \A c \in Calls :
             Invoked(c) =>
                 (Recorded(c) <=>
                      recordIfAbsentReturns(NeverSwept(c - 1), KeyOf(c), Val(calls[c].at)))
        /\ \A k \in Keys :
             /\ MemLive(mem, k, clock) <=> MemLive(NeverSwept(MaxCalls), k, clock)
             /\ MemLive(mem, k, clock) => mem[k] = NeverSwept(MaxCalls)[k]

C11_Witness ==
    \E k \in Keys : \E d \in Invocations(k) :
        /\ MemoryStoreInUse
        /\ Recorded(d)
        /\ ~IsDefined(mem[k])
        /\ IsDefined(NeverSwept(MaxCalls)[k])
        /\ \E c \in Calls : c > d /\ Invoked(c)

(***************************************************************************)
(* C12.  With a max age configured, a call whose verifier succeeded        *)
(* returns STALE_EVENT exactly when its payload carries a timestamp and    *)
(* now - eventTime > maxAge (an age equal to maxAge passes); a call whose  *)
(* payload carries no timestamp goes on to the idempotency gate.           *)
(***************************************************************************)
MaxAgeMs == Val(config.maxAgeSeconds) * MsPerSecond

FreshnessGateDecides(c) ==
    ( /\ calls[c].pc = "idle"
      /\ calls'[c].pc # "idle"
      /\ calls'[c].vcode = "OK"
      /\ IsDefined(config.maxAgeSeconds) ) =>
        /\ calls'[c].result = "PAYHOOK_STALE_EVENT" <=>
               (IsDefined(calls'[c].ts) /\ clock - Val(calls'[c].ts) > MaxAgeMs)
        /\ ( /\ calls'[c].result # "PAYHOOK_STALE_EVENT"
             /\ config.idempotencyStore # "none"
             /\ IsDefined(calls'[c].id) ) => calls'[c].touched

VerifierProbed ==
    /\ probe.fn \in {"verifyPaystackWebhook", "verifyFlutterwaveWebhook"}
    /\ probe.stage # "input"

\* The signature value the verifier was supplied with: input.signature, else the header.
SuppliedSignature ==
    SignatureOf(probe.input,
                IF IsDefined(probe.options.signatureHeader)
                THEN Val(probe.options.signatureHeader)
                ELSE IF probe.fn = "verifyPaystackWebhook"
                THEN PAYSTACK_SIGNATURE_HEADER
                ELSE FLUTTERWAVE_SIGNATURE_HEADER)

(***************************************************************************)
(* C13.  verifyPaystackWebhook given the signature hex(HMAC-SHA512(K, B))  *)
(* passes the signature check for body B and key K (Success when B parses  *)
(* as JSON) and returns INVALID_SIGNATURE for any other body or key.       *)
(***************************************************************************)
C13_DigestAcceptedOnlyForItsBodyAndKey ==
    ( /\ VerifierProbed
      /\ probe.fn = "verifyPaystackWebhook"
      /\ IsDefined(probe.input.signature)
      /\ Len(Val(probe.input.signature)) = 1
      /\ ~IsChar(Val(probe.input.signature)[1]) ) =>
        LET digest == Val(probe.input.signature)[1]
        IN  IF digest.k = probe.input.secret /\ digest.b = probe.input.rawBody
            THEN /\ probe.result.code \in {"OK", "PAYHOOK_INVALID_JSON"}
                 /\ probe.input.rawBody.json => probe.result.ok
            ELSE probe.result.code = "PAYHOOK_INVALID_SIGNATURE"

C13_Witness ==
    /\ VerifierProbed
    /\ probe.fn = "verifyPaystackWebhook"
    /\ probe.input.signature =
           Some(computePaystackSignature(
                    [json |-> TRUE, id |-> Some(0), created_at |-> Undefined,
                     paid_at |-> Undefined], probe.input.secret))
    /\ probe.input.rawBody.id = Some(1)
    /\ probe.result.code = "PAYHOOK_INVALID_SIGNATURE"

(***************************************************************************)
(* C14.  timingSafeEqualHex(a, b) returns false whenever a and b have      *)
(* unequal length, and whenever one of them is not decodable as hex while  *)
(* the other is valid hex.                                                 *)
(***************************************************************************)
ValidHex(str) ==
    /\ Len(str) % 2 = 0
    /\ \A i \in 1..Len(str) : IsHexToken(str[i])

C14_UnequalOrUndecodableIsFalse ==
    (probe.fn = "timingSafeEqualHex" /\ probe.stage = "compared") =>
        /\ Len(probe.aHex) # Len(probe.bHex) => ~probe.equal
        /\ ValidHex(probe.aHex) # ValidHex(probe.bHex) => ~probe.equal

(***************************************************************************)
(* C15.  For each provider the throwing API throws exactly when the        *)
(* result-returning verifier returns a Failure on the same input, with     *)
(* MISSING_HEADER, INVALID_SIGNATURE and INVALID_JSON thrown as            *)
(* MissingHeaderError, InvalidSignatureError and InvalidJsonError, and     *)
(* otherwise returns the payload of the Success.                           *)
(***************************************************************************)
ErrorOf(code) ==
    CASE code = "PAYHOOK_MISSING_HEADER" -> "MissingHeaderError"
      [] code = "PAYHOOK_INVALID_SIGNATURE" -> "InvalidSignatureError"
      [] code = "PAYHOOK_INVALID_JSON" -> "InvalidJsonError"
      [] OTHER -> "none"

C15_OrThrowMirrorsResult ==
    (VerifierProbed /\ probe.stage = "both") =>
        /\ probe.orThrow.thrown <=> ~probe.result.ok
        /\ ~probe.result.ok => probe.orThrow = Thrown(ErrorOf(probe.result.code))
        /\ probe.result.ok => probe.orThrow = Returned(probe.result.payload)

C15_Witness ==
    /\ VerifierProbed
    /\ probe.stage = "both"
    /\ probe.fn = "verifyFlutterwaveWebhook"
    /\ probe.result.code = "PAYHOOK_INVALID_JSON"
    /\ probe.orThrow = Thrown("InvalidJsonError")

(***************************************************************************)
(* C16.  A verifier result carries a payload exactly when it is a Success, *)
(* and the checks run in the order missing signature, signature            *)
(* comparison, JSON parse: a wrong signature gives INVALID_SIGNATURE       *)
(* whatever the body, INVALID_JSON is returned only for a body whose       *)
(* signature is valid.                                                     *)
(***************************************************************************)
SignatureMatches ==
    IF probe.fn = "verifyPaystackWebhook"
    THEN timingSafeEqualHex(
             computePaystackSignature(probe.input.rawBody, probe.input.secret),
             Val(SuppliedSignature))
    ELSE timingSafeEqualStrings(Val(SuppliedSignature), probe.input.secret)

C16_PayloadOnlyAfterSignature ==
    VerifierProbed =>
        /\ "payload" \in DOMAIN probe.result <=> probe.result.ok
        /\ ~Truthy(SuppliedSignature) => probe.result.code = "PAYHOOK_MISSING_HEADER"
        /\ (Truthy(SuppliedSignature) /\ ~SignatureMatches)
               => probe.result.code = "PAYHOOK_INVALID_SIGNATURE"
        /\ probe.result.code = "PAYHOOK_INVALID_JSON"
               => /\ Truthy(SuppliedSignature)
                  /\ SignatureMatches
                  /\ ~probe.input.rawBody.json
        /\ probe.result.ok =>
               probe.result.payload =
                   IF probe.options.parseJson = Some(FALSE)
                   THEN RawText(probe.input.rawBody)
                   ELSE Parsed(probe.input.rawBody)

C16_Witness ==
    /\ VerifierProbed
    /\ probe.fn = "verifyPaystackWebhook"
    /\ ~probe.input.rawBody.json
    /\ probe.options.parseJson # Some(FALSE)
    /\ Truthy(SuppliedSignature)
    /\ ~SignatureMatches
    /\ probe.result.code = "PAYHOOK_INVALID_SIGNATURE"

(***************************************************************************)
(* C17.  Header lookup ignores the letter case of header names: a request  *)
(* and the same request with its header names in another case get the same *)
(* header values, the same verifier results, the same detected provider    *)
(* and the same outcome of verify().                                       *)
(***************************************************************************)
C17_HeaderNameCaseIgnored ==
    (probe.fn = "getHeader" /\ probe.stage = "looked up") =>
        probe.given = probe.varied

C17_Witness ==
    /\ probe.fn = "getHeader"
    /\ probe.stage = "looked up"
    /\ probe.variant # probe.headers
    /\ probe.varied.paystack.ok
    /\ probe.varied.detected = "paystack"

(***************************************************************************)
(* C18.  verifyFlutterwaveWebhook passes the signature step exactly when   *)
(* the supplied value equals the configured secret hash character for      *)
(* character (a prefix or a different-case variant is rejected with        *)
(* INVALID_SIGNATURE), whatever the body.                                  *)
(***************************************************************************)
C18_FlutterwaveExactHashOnly ==
    ( /\ VerifierProbed
      /\ probe.fn = "verifyFlutterwaveWebhook"
      /\ Truthy(SuppliedSignature) ) =>
        /\ Val(SuppliedSignature) = probe.input.secret
               => probe.result.code \in {"OK", "PAYHOOK_INVALID_JSON"}
        /\ Val(SuppliedSignature) # probe.input.secret
               => probe.result.code = "PAYHOOK_INVALID_SIGNATURE"

C18_Witness ==
    /\ VerifierProbed
    /\ probe.fn = "verifyFlutterwaveWebhook"
    /\ probe.input.secret = FlutterwaveHash
    /\ SuppliedSignature = Some(<< Ch("A"), Ch("1") >>)
    /\ probe.input.rawBody.json
    /\ probe.result.code = "PAYHOOK_INVALID_SIGNATURE"

(***************************************************************************)
(* C19.  The key of an event is "<provider>:<id>": after a Paystack event  *)
(* with id X has been accepted, a validly authenticated Flutterwave event  *)
(* with the same id X that shares the store is accepted too, and the other *)
(* way round; it is not rejected as REPLAY_ATTACK.                         *)
(***************************************************************************)
SameIdOtherProvider(c, d) ==
    /\ Valid(c)
    /\ Valid(d)
    /\ calls[c].provider # calls[d].provider
    /\ IsDefined(calls[c].id)
    /\ calls[c].id = calls[d].id

C19_NoCollisionAcrossProviders ==
    \A d \in Calls : \A c \in Calls :
        ( /\ calls[d].pc = "done"
          /\ calls[c].pc = "done"
          /\ SameIdOtherProvider(c, d)
          /\ calls[d].result = "OK"
          /\ Fresh(c)
          /\ calls[c].reply \notin {"error", "hung"}
          /\ \A e \in Calls \ {c} : ~(calls[e].pc # "idle" /\ SameEvent(e, c)) )
        => calls[c].result = "OK"

C19_Witness ==
    \E d \in Calls : \E c \in Calls :
        /\ SameIdOtherProvider(c, d)
        /\ calls[d].provider = "paystack"
        /\ d \in calls[c].prior
        /\ calls[d].touched
        /\ calls[c].touched
        /\ calls[d].result = "OK"
        /\ calls[c].result = "OK"
        /\ \E k \in Keys : \E l \in Keys : k # l /\ IsDefined(mem[k]) /\ IsDefined(mem[l])

(***************************************************************************)
(* C20.  dispose() stops the sweep and removes every entry: the step that  *)
(* stops the timer leaves the map empty, so that recordIfAbsent for any    *)
(* key returns true; the timer is never set again, and from then on no     *)
(* entry is removed by a sweep (entries go only all at once, by another    *)
(* dispose).                                                               *)
(***************************************************************************)
DisposeStopsAndClears ==
    /\ (timer /\ ~timer') =>
           /\ mem' = EmptyStore
           /\ \A k \in Keys : recordIfAbsentReturns(mem', k, clock')
    /\ ~timer => ~timer'
    /\ ~timer => \A k \in Keys :
                     (IsDefined(mem[k]) /\ ~IsDefined(mem'[k])) => mem' = EmptyStore

C20_DisposeStopsSweepAndClears ==
    [][DisposeStopsAndClears]_vars

C20_Witness ==
    \E k \in Keys : \E c \in Invocations(k) : \E d \in Invocations(k) :
        /\ ~timer
        /\ d < c
        /\ Recorded(d)
        /\ Recorded(c)
        /\ Val(calls[c].at) - Val(calls[d].at) < TTLMs

(***************************************************************************)
(* C21.  The Redis store records a key by one set-if-not-exists command:   *)
(* the backend's entry of a key is written only in a step in which the key *)
(* is absent from the backend (never held, or expired); a key that is live *)
(* is never written over by a read followed by an unconditional write.     *)
(***************************************************************************)
WritesOnlyAbsentKeys ==
    \A k \in Keys : backend'[k] # backend[k] => ~BackendHas(backend, k, clock)

C21_RedisWritesOnlyAbsentKeys ==
    [][WritesOnlyAbsentKeys]_vars

\* The value recordIfAbsent of the later revision resolves to is true exactly when
\* the command set the key.
Answers(c) ==
    /\ calls[c].reply = "pending"
    /\ calls'[c].reply \in {"true", "false"}

RedisTrueExactlyWhenNewlySet ==
    [][\A c \in Calls : Answers(c) =>
           (calls'[c].reply = "true" <=> backend' # backend)]_vars

(***************************************************************************)
(* C22.  A verify() call moves through Detecting, Verifying,               *)
(* CheckingFreshness, CheckingIdempotency and Done in that order and never *)
(* back, and a call that does not end with a store error ends in one       *)
(* outcome that stays: Success, or a Failure with one of the six codes,    *)
(* the code being that of the stage at which the call stopped.             *)
(***************************************************************************)
\* How far a call is: not started, at the store, returned.  Detecting, Verifying and
\* CheckingFreshness run within the step that starts the call.
Position(r) ==
    IF r.pc = "idle" THEN 0
    ELSE IF r.pc = "done" THEN 2
    ELSE 1

\* The stage at which the call stopped going on, read off what it did.
StoppedAt(r) ==
    IF r.provider = NoProvider THEN "Detecting"
    ELSE IF r.vcode # "OK" THEN "Verifying"
    ELSE IF r.stale THEN "CheckingFreshness"
    ELSE IF r.touched /\ r.reply # "true" THEN "CheckingIdempotency"
    ELSE "Done"

OutcomeOfStage(r) ==
    /\ r.result \in ResultCodes \cup {"OK"}
    /\ StoppedAt(r) = "Detecting" =>
           r.result = "PAYHOOK_UNKNOWN_PROVIDER" /\ r.vcode = "none" /\ ~r.touched
    /\ StoppedAt(r) = "Verifying" =>
           r.result = r.vcode /\ r.vcode \in VerifierFailures /\ ~r.touched
    /\ StoppedAt(r) = "CheckingFreshness" =>
           r.result = "PAYHOOK_STALE_EVENT" /\ ~r.touched
    /\ StoppedAt(r) = "CheckingIdempotency" =>
           r.result = "PAYHOOK_REPLAY_ATTACK" /\ r.reply = "false"
    /\ StoppedAt(r) = "Done" => r.result = "OK"

StagesInOrder ==
    \A c \in Calls :
        /\ Position(calls[c]) <= Position(calls'[c])
        /\ calls[c].pc = "done" => calls'[c] = calls[c]
        /\ calls'[c].pc = "awaitRecordIfAbsent" =>
               /\ calls'[c].result = "none"
               /\ calls'[c].touched
               /\ calls'[c].vcode = "OK"
               /\ ~calls'[c].stale
        /\ (calls'[c].pc = "done" /\ calls'[c].result # "THROWN") =>
               OutcomeOfStage(calls'[c])

ReturnedFailure(c) ==
    /\ calls[c].pc = "done"
    /\ calls[c].result \in ResultCodes

C23_ProviderAbsentOnlyBeforeDetection ==
    \A c \in Calls :
        ReturnedFailure(c) =>
            /\ ~IsDefined(calls[c].field) <=> calls[c].result = "PAYHOOK_UNKNOWN_PROVIDER"
            /\ calls[c].result # "PAYHOOK_UNKNOWN_PROVIDER" =>
                   /\ calls[c].provider \in Providers
                   /\ calls[c].field = Some(calls[c].provider)

C23_Witness ==
    \E c \in Calls : \E d \in Calls :
        /\ ReturnedFailure(c)
        /\ ReturnedFailure(d)
        /\ calls[c].result = "PAYHOOK_UNKNOWN_PROVIDER"
        /\ calls[d].result = "PAYHOOK_STALE_EVENT"
        /\ calls[d].field = Some("flutterwave")

(***************************************************************************)
(* C24.  Calls for different event ids that share one store do not affect  *)
(* each other.  A step in which a call records its key K1 leaves the       *)
(* stored expiry of every other key K2, and what recordIfAbsent(K2) would  *)
(* return, as they were; and a valid, fresh call that is the only one for  *)
(* its id returns Success whatever calls for other ids run before, during  *)
(* or after it.                                                            *)
(***************************************************************************)
\* Call c records its key in this step.
RecordsIn(c) == ~IsDefined(calls[c].at) /\ IsDefined(calls'[c].at)

OtherKeysUntouched ==
    \A c \in Calls :
        RecordsIn(c) =>
            \A k \in Keys \ {<< calls'[c].provider, Val(calls'[c].id) >>} :
                /\ mem'[k] = mem[k]
                /\ backend'[k] = backend[k]
                /\ recordIfAbsentReturns(mem', k, clock') <=>
                       recordIfAbsentReturns(mem, k, clock)
                /\ BackendHas(backend', k, clock') <=> BackendHas(backend, k, clock)

\* In the calls cs, call c is valid, fresh, has returned from a store that answered,
\* and no other call carries its event.
AloneOnItsEvent(cs, c) ==
    /\ cs[c].pc = "done"
    /\ cs[c].touched
    /\ cs[c].reply \in {"true", "false"}
    /\ \A d \in Calls \ {c} :
           ~(/\ cs[d].pc # "idle"
             /\ cs[d].provider = cs[c].provider
             /\ cs[d].id = cs[c].id)

OtherEventsDoNotDecide ==
    \A c \in Calls : AloneOnItsEvent(calls', c) => calls'[c].result = "OK"

C24_DifferentEventsIndependent ==
    [][OtherKeysUntouched /\ OtherEventsDoNotDecide]_vars

\* Two calls for different events, overlapping in time, both through the store.
C24_Witness ==
    \E c \in Calls : \E d \in Calls :
        /\ c # d
        /\ AloneOnItsEvent(calls, c)
        /\ AloneOnItsEvent(calls, d)
        /\ c \notin calls[d].prior
        /\ d \notin calls[c].prior
        /\ calls[c].result = "OK"
        /\ calls[d].result = "OK"

(***************************************************************************)
(* C25.  The comparison each provider verifier decides a signature with    *)
(* examines every byte of two inputs of equal length, wherever they first  *)
(* differ, and on inputs of different lengths answers false having         *)
(* examined none.  (For the hex comparison the inputs are the decoded      *)
(* buffers.)                                                               *)
(***************************************************************************)
Compared == probe.fn = "comparison" /\ probe.stage = "compared"

\* The two byte sequences the comparison is made on.
ComparedBytes ==
    IF probe.by = "timingSafeEqualHex"
    THEN << HexDecode(probe.a), HexDecode(probe.b) >>
    ELSE << probe.a, probe.b >>

ExaminesAllOrNone ==
    IF Len(ComparedBytes[1]) # Len(ComparedBytes[2])
    THEN probe.examined = 0 /\ ~probe.equal
    ELSE probe.examined = Len(ComparedBytes[1])

C25_ComparisonExaminesAllBytes ==
    Compared => ExaminesAllOrNone

\* The same for the two comparisons built on crypto.timingSafeEqual alone.
TimingSafeComparisonsExamineAllBytes ==
    (Compared /\ probe.by # "strictNotEqual") => ExaminesAllOrNone

(***************************************************************************)
(* C26.  On the in-memory store recordIfAbsent(K, ttl) returns false       *)
(* exactly when K has an entry whose expiry instant is strictly later than *)
(* now; in every other case, now equal to the stored expiry included, it   *)
(* sets the expiry of K to now + ttl and returns true.                     *)
(***************************************************************************)
\* The key call c hands to the store in this step.
KeyRecorded(c) == << calls'[c].provider, Val(calls'[c].id) >>

FalseExactlyWhenExpiryLater ==
    \A c \in Calls :
        (RecordsIn(c) /\ config.idempotencyStore = "memory") =>
            LET k == KeyRecorded(c)
                later == IsDefined(mem[k]) /\ Val(mem[k]) > clock
            IN  /\ calls'[c].reply = "false" <=> later
                /\ later => mem' = mem
                /\ ~later => /\ calls'[c].reply = "true"
                             /\ mem'[k] = Some(clock + TTLMs)

C26_FalseExactlyWhenExpiryLater ==
    [][FalseExactlyWhenExpiryLater]_vars

\* The same with the instant of expiry itself counted as live, as the code has it.
FalseExactlyWhenExpiryNotBefore ==
    \A c \in Calls :
        (RecordsIn(c) /\ config.idempotencyStore = "memory") =>
            LET k == KeyRecorded(c)
                live == IsDefined(mem[k]) /\ Val(mem[k]) >= clock
            IN  /\ calls'[c].reply = "false" <=> live
                /\ live => mem' = mem
                /\ ~live => /\ calls'[c].reply = "true"
                            /\ mem'[k] = Some(clock + TTLMs)

MemoryFalseExactlyWhenExpiryNotBefore ==
    [][FalseExactlyWhenExpiryNotBefore]_vars

(***************************************************************************)
(* C27.  The freshness gate is evaluated for every configured max age, 0   *)
(* included: with maxAgeSeconds = 0 a validly signed event whose timestamp *)
(* lies in the past (age > 0) is rejected with STALE_EVENT.                *)
(***************************************************************************)
ZeroMaxAgeRejectsPast(c) ==
    ( /\ calls[c].pc = "idle"
      /\ calls'[c].pc # "idle"
      /\ calls'[c].vcode = "OK"
      /\ config.maxAgeSeconds = Some(0)
      /\ IsDefined(calls'[c].ts)
      /\ clock - Val(calls'[c].ts) > 0 ) =>
        /\ calls'[c].result = "PAYHOOK_STALE_EVENT"
        /\ ~calls'[c].touched

C27_ZeroMaxAgeRejectsPast ==
    [][\A c \in Calls : ZeroMaxAgeRejectsPast(c)]_vars

(***************************************************************************)
(* C28.  verifyPaystackWebhook returns INVALID_SIGNATURE, and does not     *)
(* throw, whenever the supplied signature does not decode as hex (it holds *)
(* a character that is no hex digit, or its length is odd), also when its  *)
(* leading characters are the expected digest.                             *)
(***************************************************************************)
\* A digest is an even number of hex digits; the other tokens are one character each.
DecodesAsHex(str) ==
    /\ \A i \in 1..Len(str) : IsHexToken(str[i])
    /\ Cardinality({i \in 1..Len(str) : IsChar(str[i])}) % 2 = 0

PaystackProbed ==
    /\ probe.fn = "verifyPaystackWebhook"
    /\ probe.stage # "input"
    /\ IsDefined(SuppliedSignature)
    /\ Val(SuppliedSignature) # << >>

C28_UndecodableSignatureRejected ==
    (PaystackProbed /\ ~DecodesAsHex(Val(SuppliedSignature))) =>
        probe.result.code = "PAYHOOK_INVALID_SIGNATURE"

(***************************************************************************)
(* C29.  With a store configured, a valid and fresh call skips the         *)
(* idempotency gate only when its payload has no data.id: it then returns  *)
(* Success with the store untouched.  Every id that is present, the number *)
(* 0 included, is handed to the store, so that a second valid event with   *)
(* the same id inside the TTL is a REPLAY_ATTACK.                          *)
(***************************************************************************)
ReachesIdempotencyGate(c) ==
    /\ calls[c].pc # "idle"
    /\ Valid(c)
    /\ ~calls[c].stale
    /\ config.idempotencyStore # "none"

C29_GateSkippedOnlyWithoutId ==
    \A c \in Calls :
        ReachesIdempotencyGate(c) =>
            /\ calls[c].touched <=> IsDefined(calls[c].id)
            /\ (~IsDefined(calls[c].id) /\ calls[c].pc = "done") =>
                   calls[c].result = "OK"

(***************************************************************************)
(* C30.  The timestamp the freshness gate uses is data.created_at, and for *)
(* Paystack alone data.paid_at when created_at is missing; paid_at is not  *)
(* consulted when created_at is present.  A Paystack event with a stale    *)
(* created_at and a fresh paid_at is STALE_EVENT; a Flutterwave event      *)
(* without created_at skips the gate even when it has paid_at.             *)
(***************************************************************************)
Extracted == probe.fn = "extractTimestamp" /\ probe.stage = "extracted"

\* The instant a field denotes, when the field is there.
InstantOf(field) == IF IsDefined(field) THEN Some(DateOf(Val(field))) ELSE Undefined

OlderThanMaxAge(field) ==
    IsStale(probe.now, DateOf(Val(field)), Val(probe.cfg.maxAgeSeconds))

PrimaryThenPaystackFallback ==
    /\ IsDefined(probe.payload.created_at) =>
           /\ probe.createdAt = InstantOf(probe.payload.created_at)
           /\ probe.stale <=> OlderThanMaxAge(probe.payload.created_at)
    /\ (~IsDefined(probe.payload.created_at) /\ probe.provider = "paystack") =>
           probe.createdAt = InstantOf(probe.payload.paid_at)
    /\ (~IsDefined(probe.payload.created_at) /\ probe.provider = "flutterwave") =>
           /\ probe.createdAt = Undefined
           /\ ~probe.stale

C30_FallbackOnlyWhenPrimaryAbsent ==
    Extracted => PrimaryThenPaystackFallback

\* The same for payloads whose created_at is a date string or missing.
DateStrings == probe.payload.created_at # Some(NumberZero)

DateStringStampsFallbackOnlyWhenAbsent ==
    (Extracted /\ DateStrings) => PrimaryThenPaystackFallback

(***************************************************************************)
(* C31.  Detection selects the first provider, Paystack before             *)
(* Flutterwave, whose signature header has a non-empty value and whose     *)
(* secret is configured; that provider's verifier alone runs and its       *)
(* result is final.  With both headers and both secrets a wrong Paystack   *)
(* signature is INVALID_SIGNATURE though the Flutterwave hash is right;    *)
(* with the Paystack header but Flutterwave alone configured (its header   *)
(* there) the Flutterwave verifier decides.                                *)
(***************************************************************************)
LookedUp == probe.fn = "getHeader" /\ probe.stage = "looked up"

PaystackEligible ==
    Truthy(probe.given.paystackHeader) /\ probe.cfg.paystackSecret # NoSecret

FlutterwaveEligible ==
    Truthy(probe.given.flutterwaveHeader) /\ probe.cfg.flutterwaveSecretHash # NoHash

\* The result of the verifier of the provider p on the request.
VerifierResultOf(p) == IF p = "paystack" THEN probe.given.paystack ELSE probe.given.flutterwave

FirstEligibleDecides ==
    /\ PaystackEligible =>
           /\ probe.given.detected = "paystack"
           /\ probe.given.verify.vcode = probe.given.paystack.code
    /\ (~PaystackEligible /\ FlutterwaveEligible) =>
           /\ probe.given.detected = "flutterwave"
           /\ probe.given.verify.vcode = probe.given.flutterwave.code
    /\ (~PaystackEligible /\ ~FlutterwaveEligible) =>
           /\ probe.given.detected = NoProvider
           /\ probe.given.verify.vcode = "none"
    /\ probe.given.verify.provider = probe.given.detected
    /\ probe.given.detected \in Providers =>
           /\ probe.given.verify.field = Some(probe.given.detected)
           /\ ~VerifierResultOf(probe.given.detected).ok =>
                  probe.given.verify.code = VerifierResultOf(probe.given.detected).code

C31_FirstEligibleProviderDecides ==
    LookedUp => FirstEligibleDecides

\* Both headers, both secrets, a wrong Paystack signature and the right hash.
C31_Witness ==
    /\ LookedUp
    /\ PaystackEligible
    /\ FlutterwaveEligible
    /\ probe.given.flutterwave.ok
    /\ probe.given.paystack.code = "PAYHOOK_INVALID_SIGNATURE"
    /\ probe.given.verify.code = "PAYHOOK_INVALID_SIGNATURE"
    /\ probe.given.verify.provider = "paystack"

\* The Paystack header with Flutterwave alone configured.
FlutterwaveDecidesBehindPaystackHeader ==
    /\ LookedUp
    /\ Truthy(probe.given.paystackHeader)
    /\ probe.cfg.paystackSecret = NoSecret
    /\ FlutterwaveEligible
    /\ probe.given.verify.provider = "flutterwave"
    /\ probe.given.verify.code = "OK"

(***************************************************************************)
(* C32.  verify() never returns MISSING_HEADER: a verifier runs only after *)
(* detection found its provider's default signature header with a          *)
(* non-empty value, and a request in which no signature header has a       *)
(* non-empty value ends in UNKNOWN_PROVIDER.                               *)
(***************************************************************************)
NeverMissingHeader ==
    /\ probe.given.verify.code # "PAYHOOK_MISSING_HEADER"
    /\ probe.given.verify.vcode # "PAYHOOK_MISSING_HEADER"
    /\ probe.given.detected = "paystack" => Truthy(probe.given.paystackHeader)
    /\ probe.given.detected = "flutterwave" => Truthy(probe.given.flutterwaveHeader)
    /\ (~Truthy(probe.given.paystackHeader) /\ ~Truthy(probe.given.flutterwaveHeader)) =>
           /\ probe.given.verify.code = "PAYHOOK_UNKNOWN_PROVIDER"
           /\ probe.given.verify.vcode = "none"

FalseLeavesStore ==
    \A c \in Calls :
        (RecordsIn(c) /\ calls'[c].reply = "false") =>
            /\ mem' = mem
            /\ backend' = backend

\* The calls that recorded key k: recordIfAbsent returned true.
Recordings(k) == {d \in Invocations(k) : Recorded(d)}

ExpiryIsOfRecording ==
    \A k \in Keys :
        /\ IsDefined(mem[k]) =>
               \E d \in Recordings(k) : Val(mem[k]) = Val(calls[d].at) + TTLMs
        /\ IsDefined(backend[k]) =>
               \E d \in Recordings(k) : Val(backend[k]) = Val(calls[d].at) + TTLMs

FalseOnlyWithinTTL ==
    \A k \in Keys : \A c \in Invocations(k) :
        calls[c].reply = "false" =>
            \E d \in Recordings(k) :
                /\ Val(calls[d].at) <= Val(calls[c].at)
                /\ Val(calls[c].at) <= Val(calls[d].at) + TTLMs

C33_FalseNeverExtendsExpiry ==
    [][FalseLeavesStore /\ ExpiryIsOfRecording' /\ FalseOnlyWithinTTL']_vars

\* A replay made after the recording, the entry still expiring ttl after the recording.
C33_Witness ==
    \E k \in Keys : \E d \in Recordings(k) : \E c \in Invocations(k) :
        /\ calls[c].reply = "false"
        /\ Val(calls[c].at) > Val(calls[d].at)
        /\ \/ mem[k] = Some(Val(calls[d].at) + TTLMs)
           \/ backend[k] = Some(Val(calls[d].at) + TTLMs)

(***************************************************************************)
(* C34.  A timestamp that is there but is no date, or that lies in the     *)
(* future, never gives STALE_EVENT: whatever maxAgeSeconds is configured,  *)
(* the freshness gate lets the correctly signed event through to the       *)
(* idempotency gate (to the store when one is configured and the event has *)
(* an id, to Success otherwise).                                           *)
(***************************************************************************)
\* The timestamp the gate reads did not parse.
Unparsed == probe.createdAt = Some(InvalidDate)

\* The timestamp the gate reads is a date later than the clock.
InFuture ==
    /\ IsDefined(probe.createdAt)
    /\ probe.createdAt # Some(InvalidDate)
    /\ Val(probe.createdAt) > probe.now

PassesFreshnessGate ==
    /\ ~probe.stale
    /\ probe.verify.code # "PAYHOOK_STALE_EVENT"
    /\ probe.verify.code = IF probe.cfg.idempotencyStore = "none" THEN "OK" ELSE "none"
    /\ probe.cfg.idempotencyStore # "none" =>
           probe.verify.key = extractEventId(probe.provider, probe.payload)

C34_UnparsedOrFutureNeverStale ==
    (Extracted /\ (Unparsed \/ InFuture)) => PassesFreshnessGate

\* An event whose created_at is no date, at an instant at which a created_at of the
\* epoch would be stale, handed on to the store.
C34_Witness ==
    /\ Extracted
    /\ Unparsed
    /\ probe.payload.created_at = Some(InvalidDate)
    /\ IsStale(probe.now, 0, Val(probe.cfg.maxAgeSeconds))
    /\ probe.verify.code = "none"
    /\ IsDefined(probe.verify.key)

\* An event dated after the clock, handed on to the store.
C34_FutureReached ==
    /\ Extracted
    /\ InFuture
    /\ probe.verify.code = "none"

(***************************************************************************)
(* C35.  Replay protection in verify() lasts for the TTL handed to the     *)
(* store, the configured idempotencyTTL or 600 seconds: with no freshness  *)
(* gate and a store that answers and is not shut down, after a validly     *)
(* signed event was accepted, a validly signed re-delivery of it made      *)
(* before the TTL has elapsed since that acceptance is REPLAY_ATTACK, and  *)
(* one made after the TTL has elapsed is Success.                          *)
(***************************************************************************)
ConfiguredTTLMs ==
    IF IsDefined(config.idempotencyTTL)
    THEN Val(config.idempotencyTTL) * MsPerSecond
    ELSE DefaultTTL * MsPerSecond

\* Call d was accepted and c is a re-delivery of its event; no other call was accepted
\* for the event between the two.
Redelivery(d, c) ==
    /\ c # d
    /\ calls[d].pc = "done"
    /\ calls[c].pc = "done"
    /\ Valid(d)
    /\ Valid(c)
    /\ SameEvent(c, d)
    /\ d \in Invocations(KeyOf(d))
    /\ c \in Invocations(KeyOf(d))
    /\ Recorded(d)
    /\ calls[d].result = "OK"
    /\ calls[c].reply \in {"true", "false"}
    /\ Val(calls[d].at) <= Val(calls[c].at)
    /\ \A e \in Recordings(KeyOf(d)) \ {c, d} : Val(calls[e].at) < Val(calls[d].at)

Elapsed(d, c) == Val(calls[c].at) - Val(calls[d].at)

ReplayProtectionLastsTTL ==
    \A d \in Calls : \A c \in Calls :
        Redelivery(d, c) =>
            /\ Elapsed(d, c) < ConfiguredTTLMs => calls[c].result = "PAYHOOK_REPLAY_ATTACK"
            /\ Elapsed(d, c) > ConfiguredTTLMs => calls[c].result = "OK"

C35_ReplayProtectionLastsTTL ==
    ( /\ config.idempotencyStore # "none"
      /\ ~IsDefined(config.maxAgeSeconds)
      /\ timer )
    => ReplayProtectionLastsTTL

\* A re-delivery accepted after the configured TTL has elapsed.
C35_Witness ==
    /\ config.idempotencyStore # "none"
    /\ ~IsDefined(config.maxAgeSeconds)
    /\ IsDefined(config.idempotencyTTL)
    /\ timer
    /\ \E d \in Calls : \E c \in Calls :
           /\ Redelivery(d, c)
           /\ Elapsed(d, c) > ConfiguredTTLMs
           /\ calls[c].result = "OK"

\* A re-delivery rejected later than the acceptance, inside the default TTL.
C35_RejectedInsideDefaultTTL ==
    /\ config.idempotencyStore # "none"
    /\ ~IsDefined(config.maxAgeSeconds)
    /\ ~IsDefined(config.idempotencyTTL)
    /\ timer
    /\ \E d \in Calls : \E c \in Calls :
           /\ Redelivery(d, c)
           /\ Elapsed(d, c) > MsPerSecond
           /\ calls[c].result = "PAYHOOK_REPLAY_ATTACK"

(***************************************************************************)
(* Two RedisIdempotencyStore objects on one backend.  Here a string is the *)
(* sequence of its characters and the backend maps the full key of a SET   *)
(* to its expiry.  The default prefix is kept as one character of its own, *)
(* none of the other strings holding any part of it.  Both client types    *)
(* send the same SET ... EX ttl NX, as arguments or as an options object.  *)
(***************************************************************************)
DefaultPrefix == << "payhook:idempotency:" >>

StoreNames == {"first", "second"}

\* options.prefix: left out, the empty string, or a string.
PrefixOptions == {Undefined, Some(<< >>), Some(<< "a" >>), Some(<< "a", "b" >>)}

StoreKeys == {<< "b" >>, << "a", "b" >>, << "b", "b" >>}

\* this.prefix = options.prefix ?? 'payhook:idempotency:'
PrefixOf(option) == IF IsDefined(option) THEN Val(option) ELSE DefaultPrefix

\* const fullKey = this.prefix + key
FullKey(option, key) == PrefixOf(option) \o key

FullKeys == {FullKey(o, k) : o \in PrefixOptions, k \in StoreKeys}

RedisStoreProbes ==
    [fn : {"RedisIdempotencyStore"},
     options : [StoreNames -> PrefixOptions],
     shared : {[f \in FullKeys |-> Undefined]},
     recorded : {{}},
     last : {Undefined}]

RedisPrefixInit ==
    /\ revision = "library"
    /\ clock = 0
    /\ config \in {cfg \in Configs : /\ cfg.paystackSecret = PaystackSecret
                                     /\ cfg.flutterwaveSecretHash = FlutterwaveHash
                                     /\ cfg.idempotencyStore = "redis"
                                     /\ cfg.idempotencyTTL = Undefined
                                     /\ cfg.maxAgeSeconds = Undefined}
    /\ mem = EmptyStore
    /\ timer = TRUE
    /\ backend = EmptyStore
    /\ calls = [c \in Calls |-> IdleCall]
    /\ probe \in RedisStoreProbes

\* recordIfAbsent(key, ttlSeconds) through the store s: the SET of the full key, and
\* result !== null.  recorded notes the keys for which the store returned true.
RedisStoreRecordIfAbsent(s) ==
    \E key \in StoreKeys :
        LET fullKey == FullKey(probe.options[s], key)
            returns == RedisRecordIfAbsentReturns(SetNXReply(probe.shared, fullKey, clock))
        IN  /\ probe' = [probe EXCEPT
                   !.shared = SetNX(probe.shared, fullKey, TTLOf(config), clock),
                   !.recorded = IF returns THEN @ \cup {<< s, key >>} ELSE @,
                   !.last = Some([store |-> s, key |-> key, fullKey |-> fullKey,
                                  returns |-> returns])]
            /\ LibraryFrame

RedisPrefixNext == \E s \in StoreNames : RedisStoreRecordIfAbsent(s)

RedisPrefixSpec == RedisPrefixInit /\ [][RedisPrefixNext]_vars

(***************************************************************************)
(* C36.  The keys a RedisIdempotencyStore writes are its prefix (by        *)
(* default "payhook:idempotency:") followed by the event key, and two      *)
(* stores with different prefixes on one backend never collide: whatever   *)
(* one store recorded, recordIfAbsent(K') through the other returns false  *)
(* only when that other store itself recorded K'.                          *)
(***************************************************************************)
PrefixesDiffer == PrefixOf(probe.options["first"]) # PrefixOf(probe.options["second"])

\* Every key on the backend is the prefix of a store followed by a key it recorded.
WritesPrefixedKeys ==
    \A f \in FullKeys :
        IsDefined(probe.shared[f]) =>
            \E r \in probe.recorded : f = FullKey(probe.options[r[1]], r[2])

\* A false answer is owed to a recording through the same store.
FalseOnlyForOwnRecording ==
    (IsDefined(probe.last) /\ ~Val(probe.last).returns) =>
        << Val(probe.last).store, Val(probe.last).key >> \in probe.recorded

C36_DifferentPrefixesNeverCollide ==
    PrefixesDiffer => (WritesPrefixedKeys /\ FalseOnlyForOwnRecording)

\* s is an initial part of t.
IsInitialPart(s, t) == Len(s) <= Len(t) /\ SubSeq(t, 1, Len(s)) = s

\* Neither prefix is an initial part of the other.
PrefixFree ==
    /\ ~IsInitialPart(PrefixOf(probe.options["first"]), PrefixOf(probe.options["second"]))
    /\ ~IsInitialPart(PrefixOf(probe.options["second"]), PrefixOf(probe.options["first"]))

\* The same for two prefixes neither of which begins with the other.
PrefixFreeStoresNeverCollide ==
    PrefixFree => (WritesPrefixedKeys /\ FalseOnlyForOwnRecording)

\* A false answer under the default prefix and another one, each store having recorded.
PrefixFreeDuplicateReached ==
    /\ PrefixFree
    /\ probe.options["first"] = Undefined
    /\ IsDefined(probe.last)
    /\ ~Val(probe.last).returns
    /\ \E r \in probe.recorded : r[1] # Val(probe.last).store

\* A false answer through a store that never recorded the key, both prefixes being
\* different strings that are not empty.
NonEmptyPrefixesCollide ==
    /\ PrefixesDiffer
    /\ \A s \in StoreNames : PrefixOf(probe.options[s]) # << >>
    /\ IsDefined(probe.last)
    /\ ~Val(probe.last).returns
    /\ << Val(probe.last).store, Val(probe.last).key >> \notin probe.recorded

(***************************************************************************)
(* payhookMiddleware (Express).  One invocation of the handler: the        *)
(* request, whether reading req.body throws, the configuration and the     *)
(* clock; what the handler has done so far: req.webhook, the status and    *)
(* the error of the JSON response, and the arguments next was called with  *)
(* ("nothing" for next(), "err" for next(err)).  The store verify() awaits *)
(* answers true or false or rejects.                                       *)
(***************************************************************************)
BadRequest == 400

MiddlewareProbes ==
    UNION { [fn : {"payhookMiddleware"}, pc : {"start"},
             rawBody : {req.rawBody}, headers : {req.headers},
             bodyThrows : BOOLEAN,
             cfg : {cfg \in Configs : cfg.idempotencyTTL = Undefined},
             now : {0, MaxTicks * TickMs},
             result : {"none"}, webhook : {Undefined}, status : {Undefined},
             json : {Undefined}, nextCalls : {<< >>}] : req \in Requests }

MiddlewareInit ==
    /\ revision = "library"
    /\ clock = 0
    /\ config \in {cfg \in Configs : /\ cfg.paystackSecret = PaystackSecret
                                     /\ cfg.flutterwaveSecretHash = FlutterwaveHash
                                     /\ cfg.idempotencyStore = "none"
                                     /\ cfg.idempotencyTTL = Undefined
                                     /\ cfg.maxAgeSeconds = Undefined}
    /\ mem = EmptyStore
    /\ timer = TRUE
    /\ backend = EmptyStore
    /\ calls = [c \in Calls |-> IdleCall]
    /\ probe \in MiddlewareProbes

\* The handler calling next() after the 400 response as well.
payhookMiddlewareNextAfterFailure(p, code) ==
    IF code = "THROWN"
    THEN [p EXCEPT !.pc = "done", !.result = code, !.nextCalls = Append(@, "err")]
    ELSE IF code # "OK"
    THEN [p EXCEPT !.pc = "done", !.result = code, !.status = Some(BadRequest),
                   !.json = Some(code), !.nextCalls = Append(@, "nothing")]
    ELSE [p EXCEPT !.pc = "done", !.result = code,
                   !.webhook = Some(Parsed(p.rawBody)),
                   !.nextCalls = Append(@, "nothing")]

\* The handler from the point verify() has settled: catch (err) { next(err) }; on
\* !result.ok the 400 response and return; else req.webhook and next().
payhookMiddlewareAfterVerify(p, code) ==
    IF code = "THROWN"
    THEN [p EXCEPT !.pc = "done", !.result = code, !.nextCalls = Append(@, "err")]
    ELSE IF code # "OK"
    THEN [p EXCEPT !.pc = "done", !.result = code, !.status = Some(BadRequest),
                   !.json = Some(code)]
    ELSE [p EXCEPT !.pc = "done", !.result = code,
                   !.webhook = Some(Parsed(p.rawBody)),
                   !.nextCalls = Append(@, "nothing")]

\* The handler is entered: req.body is read and verify() runs up to its return or to
\* the call of the store.
MiddlewareEnter ==
    /\ probe.fn = "payhookMiddleware"
    /\ probe.pc = "start"
    /\ LET o == verify(probe.rawBody, probe.headers, probe.cfg, probe.now)
       IN  probe' = IF probe.bodyThrows
                    THEN payhookMiddlewareAfterVerify(probe, "THROWN")
                    ELSE IF o.code = "none"
                    THEN [probe EXCEPT !.pc = "awaitVerify"]
                    ELSE payhookMiddlewareAfterVerify(probe, o.code)
    /\ LibraryFrame

\* The store answers and verify() settles.
MiddlewareResume ==
    /\ probe.fn = "payhookMiddleware"
    /\ probe.pc = "awaitVerify"
    /\ \E reply \in {"true", "false", "error"} :
           probe' = payhookMiddlewareAfterVerify(probe, verifyAfterRecordIfAbsent(reply))
    /\ LibraryFrame

MiddlewareNext == MiddlewareEnter \/ MiddlewareResume

MiddlewareSpec == MiddlewareInit /\ [][MiddlewareNext]_vars

(***************************************************************************)
(* C37.  For a request handled by payhookMiddleware exactly one of three   *)
(* things happens: on Success the payload is attached to req.webhook and   *)
(* next() is called once without argument; on a verification Failure a 400 *)
(* response with the failure code is sent and next is not called; on an    *)
(* unexpected error (one of the idempotency store included) next(err) is   *)
(* called once and no 400 response is sent.                                *)
(***************************************************************************)
Handled == probe.fn = "payhookMiddleware" /\ probe.pc = "done"

\* What verify() does on the request, the store answering reply.
VerifySettlesAs(reply) ==
    LET o == verify(probe.rawBody, probe.headers, probe.cfg, probe.now)
    IN  IF probe.bodyThrows THEN "THROWN"
        ELSE IF o.code = "none" THEN verifyAfterRecordIfAbsent(reply)
        ELSE o.code

PassedOn ==
    /\ probe.webhook = Some(Parsed(probe.rawBody))
    /\ probe.nextCalls = << "nothing" >>
    /\ probe.status = Undefined
    /\ probe.json = Undefined

Rejected ==
    /\ probe.status = Some(BadRequest)
    /\ probe.json = Some(probe.result)
    /\ probe.nextCalls = << >>
    /\ probe.webhook = Undefined

ErrorForwarded ==
    /\ probe.nextCalls = << "err" >>
    /\ probe.status = Undefined
    /\ probe.json = Undefined
    /\ probe.webhook = Undefined

NothingDoneYet ==
    /\ probe.nextCalls = << >>
    /\ probe.status = Undefined
    /\ probe.json = Undefined
    /\ probe.webhook = Undefined

ExactlyOneOfThree ==
    /\ probe.result \in {VerifySettlesAs(reply) : reply \in {"true", "false", "error"}}
    /\ probe.result = "OK" => PassedOn
    /\ probe.result \in ResultCodes \ {"OK", "THROWN"} => Rejected
    /\ probe.result = "THROWN" => ErrorForwarded
    /\ PassedOn \/ Rejected \/ ErrorForwarded

C37_MiddlewareExactlyOneOutcome ==
    /\ Handled => ExactlyOneOfThree
    /\ (probe.fn = "payhookMiddleware" /\ probe.pc # "done") => NothingDoneYet

\* The store rejected: next(err) once, no response.
C37_Witness ==
    /\ Handled
    /\ ~probe.bodyThrows
    /\ probe.cfg.idempotencyStore # "none"
    /\ probe.result = "THROWN"
    /\ ErrorForwarded

\* A Success handed on, and a duplicate and a stale event answered with 400.
C37_SuccessReached == Handled /\ probe.result = "OK" /\ PassedOn

C37_ReplayRejectedReached ==
    Handled /\ probe.result = "PAYHOOK_REPLAY_ATTACK" /\ Rejected

C37_StaleRejectedReached ==
    Handled /\ probe.result = "PAYHOOK_STALE_EVENT" /\ Rejected

====
